---------------------------- MODULE Spec2Model ----------------------------
(***************************************************************************)
(* Model of the filter and analytics engine of the NYC collisions          *)
(* dashboard (src/app.py): the query parser, the option-set normalizer,    *)
(* the filter engine, and the two Dash callbacks that drive them.          *)
(*                                                                         *)
(* Python strings are modelled as sequences of one-character strings, so   *)
(* that substring search, lower-casing, the year regular expression and    *)
(* the normalizer's character tests are computed and not assumed.          *)
(* Dynamically typed Python values (dropdown values, criteria fields, the  *)
(* search text) are tagged records: PyNone, PyStr(s), PyInt(n).            *)
(***************************************************************************)
EXTENDS Integers, Sequences, FiniteSets, TLC

(***************************************************************************)
(* Characters and strings                                                  *)
(***************************************************************************)
LowerChars == <<"a","b","c","d","e","f","g","h","i","j","k","l","m","n","o","p","q","r","s","t","u","v","w","x","y","z">>

UpperChars == <<"A","B","C","D","E","F","G","H","I","J","K","L","M","N","O","P","Q","R","S","T","U","V","W","X","Y","Z">>

DigitChars == <<"0","1","2","3","4","5","6","7","8","9">>

Range(s) == {s[i] : i \in 1..Len(s)}

IndexOf(s, c) == CHOOSE i \in 1..Len(s) : s[i] = c

\* str.isdigit() on one character
IsDigit(c) == c \in Range(DigitChars)

\* str.isalpha() on one character
IsAlpha(c) == c \in Range(LowerChars) \cup Range(UpperChars)

\* the regular expression class \w
IsWordChar(c) == IsAlpha(c) \/ IsDigit(c) \/ c = "_"

\* str.lower() on one character
LowerChar(c) == IF c \in Range(UpperChars) THEN LowerChars[IndexOf(UpperChars, c)] ELSE c

\* str.lower()
Lower(s) == [i \in 1..Len(s) |-> LowerChar(s[i])]

\* Python's `k in s` on two strings: k occurs as a contiguous substring of s
Contains(s, k) == \E i \in 1..(Len(s) - Len(k) + 1) : SubSeq(s, i, i + Len(k) - 1) = k

\* the value of one decimal digit
DigitValue(c) == IndexOf(DigitChars, c) - 1

\* int(s) on a string of decimal digits
RECURSIVE ParseInt(_)
ParseInt(s) == IF s = <<>> THEN 0 ELSE 10 * ParseInt(SubSeq(s, 1, Len(s) - 1)) + DigitValue(s[Len(s)])

(***************************************************************************)
(* Python values                                                           *)
(***************************************************************************)
PyNone == [t |-> "NoneType"]

PyStr(s) == [t |-> "str", s |-> s]

PyInt(n) == [t |-> "int", n |-> n]

\* Python truthiness of a value: None, '' and 0 are false
Truthy(v) == CASE v.t = "NoneType" -> FALSE
               [] v.t = "str" -> v.s # <<>>
               [] v.t = "int" -> v.n # 0

\* Python == between two values (a string never equals a number)
PyEq(a, b) == CASE a.t # b.t -> FALSE
                [] a.t = "NoneType" -> TRUE
                [] a.t = "str" -> a.s = b.s
                [] a.t = "int" -> a.n = b.n

S_All == <<"A","l","l">>

All == PyStr(S_All)

(***************************************************************************)
(* parse_search_query: keyword tables, in the order the code writes them   *)
(***************************************************************************)
S_BROOKLYN == <<"B","R","O","O","K","L","Y","N">>
S_MANHATTAN == <<"M","A","N","H","A","T","T","A","N">>
S_QUEENS == <<"Q","U","E","E","N","S">>
S_BRONX == <<"B","R","O","N","X">>
S_STATEN_ISLAND == <<"S","T","A","T","E","N"," ","I","S","L","A","N","D">>

K_brooklyn == <<"b","r","o","o","k","l","y","n">>
K_manhattan == <<"m","a","n","h","a","t","t","a","n">>
K_queens == <<"q","u","e","e","n","s">>
K_bronx == <<"b","r","o","n","x">>
K_staten_island == <<"s","t","a","t","e","n"," ","i","s","l","a","n","d">>

boroughs == << <<K_brooklyn, S_BROOKLYN>>, <<K_manhattan, S_MANHATTAN>>,
               <<K_queens, S_QUEENS>>, <<K_bronx, S_BRONX>>,
               <<K_staten_island, S_STATEN_ISLAND>> >>

S_Sedan == <<"S","e","d","a","n">>
S_SUV == <<"S","t","a","t","i","o","n"," ","W","a","g","o","n","/","S","p","o","r","t"," ","U","t","i","l","i","t","y"," ","V","e","h","i","c","l","e">>
S_Truck == <<"T","r","u","c","k">>
S_Pickup == <<"P","i","c","k","-","u","p"," ","T","r","u","c","k">>
S_Motorcycle == <<"M","o","t","o","r","c","y","c","l","e">>
S_Moped == <<"M","o","p","e","d">>
S_Bicycle == <<"B","i","c","y","c","l","e">>
S_Bus == <<"B","u","s">>
S_Van == <<"V","a","n">>
S_Taxi == <<"T","a","x","i">>
S_Ambulance == <<"A","m","b","u","l","a","n","c","e">>

K_sedan == <<"s","e","d","a","n">>
K_suv == <<"s","u","v">>
K_sport_utility == <<"s","p","o","r","t"," ","u","t","i","l","i","t","y">>
K_truck == <<"t","r","u","c","k">>
K_pickup == <<"p","i","c","k","u","p">>
K_motorcycle == <<"m","o","t","o","r","c","y","c","l","e">>
K_moped == <<"m","o","p","e","d">>
K_bicycle == <<"b","i","c","y","c","l","e">>
K_bike == <<"b","i","k","e">>
K_bus == <<"b","u","s">>
K_van == <<"v","a","n">>
K_taxi == <<"t","a","x","i">>
K_ambulance == <<"a","m","b","u","l","a","n","c","e">>

vehicle_keywords == << <<K_sedan, S_Sedan>>, <<K_suv, S_SUV>>, <<K_sport_utility, S_SUV>>,
                       <<K_truck, S_Truck>>, <<K_pickup, S_Pickup>>,
                       <<K_motorcycle, S_Motorcycle>>, <<K_moped, S_Moped>>,
                       <<K_bicycle, S_Bicycle>>, <<K_bike, S_Bicycle>>,
                       <<K_bus, S_Bus>>, <<K_van, S_Van>>, <<K_taxi, S_Taxi>>,
                       <<K_ambulance, S_Ambulance>> >>

S_Unsafe_Speed == <<"U","n","s","a","f","e"," ","S","p","e","e","d">>
S_Alcohol == <<"A","l","c","o","h","o","l"," ","I","n","v","o","l","v","e","m","e","n","t">>
S_Inattention == <<"D","r","i","v","e","r"," ","I","n","a","t","t","e","n","t","i","o","n","/","D","i","s","t","r","a","c","t","i","o","n">>
S_Traffic_Control == <<"T","r","a","f","f","i","c"," ","C","o","n","t","r","o","l"," ","D","i","s","r","e","g","a","r","d","e","d">>

K_speeding == <<"s","p","e","e","d","i","n","g">>
K_speed == <<"s","p","e","e","d">>
K_alcohol == <<"a","l","c","o","h","o","l">>
K_drunk == <<"d","r","u","n","k">>
K_distraction == <<"d","i","s","t","r","a","c","t","i","o","n">>
K_inattention == <<"i","n","a","t","t","e","n","t","i","o","n">>
K_red_light == <<"r","e","d"," ","l","i","g","h","t">>
K_stop_sign == <<"s","t","o","p"," ","s","i","g","n">>

factor_keywords == << <<K_speeding, S_Unsafe_Speed>>, <<K_speed, S_Unsafe_Speed>>,
                      <<K_alcohol, S_Alcohol>>, <<K_drunk, S_Alcohol>>,
                      <<K_distraction, S_Inattention>>, <<K_inattention, S_Inattention>>,
                      <<K_red_light, S_Traffic_Control>>, <<K_stop_sign, S_Traffic_Control>> >>

K_pedestrian == <<"p","e","d","e","s","t","r","i","a","n">>
K_cyclist == <<"c","y","c","l","i","s","t">>
K_motorist == <<"m","o","t","o","r","i","s","t">>
K_driver == <<"d","r","i","v","e","r">>

S_Pedestrian == <<"P","e","d","e","s","t","r","i","a","n">>
S_Cyclist == <<"C","y","c","l","i","s","t">>
S_Motorist == <<"M","o","t","o","r","i","s","t">>

\* `for key, value in table.items(): if key in query_lower: ...; break`
\* (a dict iterates in insertion order): the value of the first entry whose
\* key occurs in the text, None when no key occurs
FirstKeyword(table, query_lower) ==
    LET hits == {i \in 1..Len(table) : Contains(query_lower, table[i][1])}
    IN  IF hits = {} THEN PyNone
        ELSE PyStr(table[CHOOSE i \in hits : \A j \in hits : i <= j][2])

\* whether position p of q holds a \w character (positions outside q do not)
WordAt(q, p) == p \in 1..Len(q) /\ IsWordChar(q[p])

\* the regular expression assertion \b just before position p of q
WordBoundary(q, p) == WordAt(q, p - 1) # WordAt(q, p)

\* whether r'\b(19|20)\d{2}\b' matches q starting at position i
YearMatchAt(q, i) ==
    /\ i + 3 <= Len(q)
    /\ WordBoundary(q, i)
    /\ SubSeq(q, i, i + 1) \in {<<"1","9">>, <<"2","0">>}
    /\ IsDigit(q[i + 2])
    /\ IsDigit(q[i + 3])
    /\ WordBoundary(q, i + 4)

\* the year pattern without its \b assertions
YearMatchAt_Unanchored(q, i) ==
    /\ i + 3 <= Len(q)
    /\ SubSeq(q, i, i + 1) \in {<<"1","9">>, <<"2","0">>}
    /\ IsDigit(q[i + 2])
    /\ IsDigit(q[i + 3])

\* whether r'\b(19\d{2}|20\d{2})\b' matches q starting at position i
FullYearMatchAt(q, i) ==
    /\ i + 3 <= Len(q)
    /\ WordBoundary(q, i)
    /\ \/ SubSeq(q, i, i + 1) = <<"1","9">> /\ IsDigit(q[i + 2]) /\ IsDigit(q[i + 3])
       \/ SubSeq(q, i, i + 1) = <<"2","0">> /\ IsDigit(q[i + 2]) /\ IsDigit(q[i + 3])
    /\ WordBoundary(q, i + 4)

\* re.search, given the start positions at which the pattern matches q: the
\* text of the leftmost match, None when there is none
ReSearch(q, hits) ==
    IF hits = {} THEN PyNone
    ELSE LET i == CHOOSE k \in hits : \A j \in hits : k <= j
         IN  PyStr(SubSeq(q, i, i + 3))

\* the year block with both patterns written without \b
ParseYear_Unanchored(query) ==
    LET year_match == ReSearch(query, {i \in 1..Len(query) : YearMatchAt_Unanchored(query, i)})
    IN  IF year_match # PyNone THEN PyInt(ParseInt(year_match.s)) ELSE PyNone

\* the year block of parse_search_query
ParseYear(query) ==
    LET year_match == ReSearch(query, {i \in 1..Len(query) : YearMatchAt(query, i)})
        full_year_match == ReSearch(query, {i \in 1..Len(query) : FullYearMatchAt(query, i)})
    IN  IF year_match # PyNone /\ full_year_match # PyNone
        THEN PyInt(ParseInt(full_year_match.s))
        ELSE PyNone

\* the position of the first occurrence of k in s (k occurs in s)
FindPos(s, k) == CHOOSE i \in 1..Len(s) :
                     /\ SubSeq(s, i, i + Len(k) - 1) = k
                     /\ \A j \in 1..(i - 1) : SubSeq(s, j, j + Len(k) - 1) # k

\* a keyword search in which the keyword occurring first in the text wins
FirstInText(table, query_lower) ==
    LET hits == {i \in 1..Len(table) : Contains(query_lower, table[i][1])}
        pos(i) == FindPos(query_lower, table[i][1])
    IN  IF hits = {} THEN PyNone
        ELSE PyStr(table[CHOOSE i \in hits : \A j \in hits :
                             pos(i) < pos(j) \/ (pos(i) = pos(j) /\ i <= j)][2])

\* the borough block with text order in place of table order
ParseBorough_TextOrder(query_lower) == FirstInText(boroughs, query_lower)

\* the borough block of parse_search_query
ParseBorough(query_lower) == FirstKeyword(boroughs, query_lower)

\* the vehicle type block with text order in place of table order
ParseVehicleType_TextOrder(query_lower) == FirstInText(vehicle_keywords, query_lower)

\* the vehicle type block of parse_search_query
ParseVehicleType(query_lower) == FirstKeyword(vehicle_keywords, query_lower)

\* a contributing factor block that leaves the sentinel "All", not None, when
\* no keyword occurs
ParseFactor_SentinelDefault(query_lower) ==
    IF FirstKeyword(factor_keywords, query_lower) = PyNone THEN All
    ELSE FirstKeyword(factor_keywords, query_lower)

\* the contributing factor block of parse_search_query
ParseFactor(query_lower) == FirstKeyword(factor_keywords, query_lower)

\* the injury type block with the cyclist test ahead of the pedestrian test
ParseInjuryType_CyclistFirst(query_lower) ==
    IF Contains(query_lower, K_cyclist) \/ Contains(query_lower, K_bicycle) THEN PyStr(S_Cyclist)
    ELSE IF Contains(query_lower, K_pedestrian) THEN PyStr(S_Pedestrian)
    ELSE IF Contains(query_lower, K_motorist) \/ Contains(query_lower, K_driver) THEN PyStr(S_Motorist)
    ELSE PyNone

\* the injury type block of parse_search_query
ParseInjuryType(query_lower) ==
    IF Contains(query_lower, K_pedestrian) THEN PyStr(S_Pedestrian)
    ELSE IF Contains(query_lower, K_cyclist) \/ Contains(query_lower, K_bicycle) THEN PyStr(S_Cyclist)
    ELSE IF Contains(query_lower, K_motorist) \/ Contains(query_lower, K_driver) THEN PyStr(S_Motorist)
    ELSE PyNone

NoFilters == [borough |-> PyNone, year |-> PyNone, vehicle_type |-> PyNone,
              contributing_factor |-> PyNone, injury_type |-> PyNone]

\* parse_search_query(query); query is None or a string
parse_search_query(query) ==
    IF ~Truthy(query) THEN NoFilters
    ELSE LET query_lower == Lower(query.s)
         IN  [borough |-> ParseBorough(query_lower),
              year |-> ParseYear(query.s),
              vehicle_type |-> ParseVehicleType(query_lower),
              contributing_factor |-> ParseFactor(query_lower),
              injury_type |-> ParseInjuryType(query_lower)]

(***************************************************************************)
(* Query texts the parser is exercised on: concatenations of at most       *)
(* MaxFrags fragments (keywords, year digits, separators, other words)     *)
(***************************************************************************)
MaxFrags == 3

Fragments == { K_brooklyn, K_staten_island, <<"Q","u","e","e","n","s">>,
               <<"2","0","2","1">>, <<"1","9","9","9">>, <<"7">>, <<" ">>, <<"x">>,
               K_pedestrian, <<"C","y","c","l","i","s","t">>, K_bicycle, K_driver }

RECURSIVE Concat(_)
Concat(fs) == IF fs = <<>> THEN <<>> ELSE Head(fs) \o Concat(Tail(fs))

FragSeqs == UNION {[1..n -> Fragments] : n \in 0..MaxFrags}

QueryTexts == {Concat(fs) : fs \in FragSeqs}

\* texts about vehicles and factors: concatenations of at most MaxVehicleFrags
\* of these fragments
MaxVehicleFrags == 3

VehicleFragments == { K_pickup, K_truck, <<" ">>, <<"S","U","V">>, K_bike, K_speeding,
                      <<"T","a","x","i">> }

VehicleTexts == {Concat(fs) : fs \in UNION {[1..n -> VehicleFragments] : n \in 0..MaxVehicleFrags}}

\* each keyword of vehicle_keywords as a query of its own
KeywordTexts == {vehicle_keywords[i][1] : i \in 1..Len(vehicle_keywords)}

Queries == {PyNone} \cup {PyStr(q) : q \in QueryTexts \cup VehicleTexts \cup KeywordTexts}

VARIABLES query, parsed, ppc

pvars == <<query, parsed, ppc>>

\* a query text is typed into the search box; nothing is parsed yet
ParseInit == query \in Queries /\ parsed = NoFilters /\ ppc = "typed"

\* the parser is not exercised
ParseIdle == query = PyNone /\ parsed = NoFilters /\ ppc = "idle"

\* the parser runs on the text
Parse == /\ ppc = "typed"
         /\ parsed' = parse_search_query(query)
         /\ ppc' = "parsed"
         /\ UNCHANGED query

(***************************************************************************)
(* The dataset.  A frame has a set of columns and a sequence of rows; a    *)
(* row is a record over every column name, and the fields of columns the   *)
(* frame does not have are never read.  String cells are strings ('' for a *)
(* missing value, as load_data leaves them); numeric cells are integers,   *)
(* NaN for a missing value.                                                *)
(***************************************************************************)
NaN == -1

S_Empty == <<>>

S_Unspecified == <<"U","n","s","p","e","c","i","f","i","e","d">>

FullSchema == {"COLLISION_ID", "BOROUGH", "CRASH_YEAR", "CRASH_MONTH", "CRASH_HOUR",
               "CRASH_WEEKDAY", "LATITUDE", "LONGITUDE",
               "VEHICLE_TYPE_CODE_1", "VEHICLE_TYPE_CODE_2",
               "CONTRIBUTING_FACTOR_VEHICLE_1", "CONTRIBUTING_FACTOR_VEHICLE_2",
               "NUMBER_OF_PERSONS_INJURED", "NUMBER_OF_PERSONS_KILLED",
               "NUMBER_OF_PEDESTRIANS_INJURED", "NUMBER_OF_PEDESTRIANS_KILLED",
               "NUMBER_OF_CYCLIST_INJURED", "NUMBER_OF_CYCLIST_KILLED",
               "NUMBER_OF_MOTORIST_INJURED", "NUMBER_OF_MOTORIST_KILLED",
               "TOTAL_INJURED", "TOTAL_KILLED"}

\* a row: identifier, borough, year, month, hour, weekday, coordinates, the two
\* vehicle types, the two factors, and <<injured, killed>> of pedestrians,
\* cyclists and motorists; the person and total counts are their sums.  The
\* field size is the cell of the column the map block adds to its own frame;
\* no loaded frame has that column.
Row(id, b, y, mo, h, wd, lat, lon, v1, v2, f1, f2, ped, cyc, mot) ==
    [COLLISION_ID |-> id, BOROUGH |-> b, CRASH_YEAR |-> y, CRASH_MONTH |-> mo,
     CRASH_HOUR |-> h, CRASH_WEEKDAY |-> wd, LATITUDE |-> lat, LONGITUDE |-> lon,
     VEHICLE_TYPE_CODE_1 |-> v1, VEHICLE_TYPE_CODE_2 |-> v2,
     CONTRIBUTING_FACTOR_VEHICLE_1 |-> f1, CONTRIBUTING_FACTOR_VEHICLE_2 |-> f2,
     NUMBER_OF_PERSONS_INJURED |-> ped[1] + cyc[1] + mot[1],
     NUMBER_OF_PERSONS_KILLED |-> ped[2] + cyc[2] + mot[2],
     NUMBER_OF_PEDESTRIANS_INJURED |-> ped[1], NUMBER_OF_PEDESTRIANS_KILLED |-> ped[2],
     NUMBER_OF_CYCLIST_INJURED |-> cyc[1], NUMBER_OF_CYCLIST_KILLED |-> cyc[2],
     NUMBER_OF_MOTORIST_INJURED |-> mot[1], NUMBER_OF_MOTORIST_KILLED |-> mot[2],
     TOTAL_INJURED |-> ped[1] + cyc[1] + mot[1],
     TOTAL_KILLED |-> ped[2] + cyc[2] + mot[2],
     size |-> NaN]

R1 == Row(1, S_BROOKLYN, 2021, 1, 8, 1, 40, 74, S_Sedan, S_Empty,
          S_Unsafe_Speed, S_Unspecified, <<1, 0>>, <<0, 0>>, <<0, 0>>)

R2 == Row(2, S_BROOKLYN, 2021, 12, 17, 5, 41, 73, S_Taxi, S_Sedan,
          S_Unspecified, S_Unsafe_Speed, <<0, 1>>, <<1, 0>>, <<0, 0>>)

R3 == Row(3, S_QUEENS, 2022, 3, 8, 1, 0, 0, S_Sedan, S_Taxi,
          S_Alcohol, S_Empty, <<0, 0>>, <<0, 0>>, <<2, 0>>)

R4 == Row(4, S_BROOKLYN, 2022, 1, 23, 6, 40, 73, S_Bus, S_Empty,
          S_Unsafe_Speed, S_Empty, <<0, 0>>, <<0, 0>>, <<0, 0>>)

R5 == Row(5, S_QUEENS, 2021, 7, 0, 0, NaN, NaN, S_Taxi, S_Bus,
          S_Unspecified, S_Unspecified, <<0, 0>>, <<0, 1>>, <<0, 1>>)

R6 == Row(6, S_Empty, NaN, NaN, NaN, NaN, 40, 0, S_Empty, S_Empty,
          S_Empty, S_Empty, <<1, 0>>, <<1, 0>>, <<1, 0>>)

R7 == Row(7, S_BROOKLYN, 2021, 6, 12, 3, 40, 74, S_Sedan, S_Sedan,
          S_Alcohol, S_Unspecified, <<0, 0>>, <<0, 0>>, <<1, 0>>)

R8 == Row(8, S_QUEENS, 2022, 6, 9, 2, 41, 74, S_Bus, S_Taxi,
          S_Unsafe_Speed, S_Alcohol, <<2, 0>>, <<0, 0>>, <<0, 0>>)

\* a record with a month code outside the calendar
R9 == Row(9, S_BRONX, 2022, 13, 9, 2, 41, 74, S_Bus, S_Taxi,
          S_Unsafe_Speed, S_Alcohol, <<0, 0>>, <<1, 1>>, <<0, 0>>)

RowPool == {R1, R2, R3, R4, R5, R6}

\* 3 records in Brooklyn/2021 and 2 in Queens/2022, interleaved
ScenarioRows == <<R1, R3, R2, R8, R7>>

MaxRows == 2

RowSeqs == UNION {[1..n -> RowPool] : n \in 0..MaxRows}

Frame(cols, rows) == [cols |-> cols, rows |-> rows]

(***************************************************************************)
(* apply_filters.  A result is [raised, frame]: raised is TRUE when a      *)
(* column the code indexes is not in the frame (KeyError).                 *)
(***************************************************************************)
\* the test without the sentinel: `filters.get(k)` alone
Active_NoSentinel(v) == Truthy(v)

\* `filters.get(k) and filters[k] != 'All'`
Active(v) == Truthy(v) /\ ~PyEq(v, All)

\* a string cell == a criteria value
StrCellEq(cell, v) == v.t = "str" /\ cell = v.s

\* a numeric cell == a criteria value (NaN equals nothing)
NumCellEq(cell, v) == v.t = "int" /\ cell # NaN /\ cell = v.n

\* a numeric cell > 0 (NaN > 0 is False)
Positive(cell) == cell # NaN /\ cell > 0

\* boolean indexing with the mask misaligned by one row: row i is kept when
\* the entry of row i + 1 is True
BoolIndex_Shifted(rows, mask) ==
    LET keep == {i \in 1..Len(rows) : i + 1 <= Len(mask) /\ mask[i + 1]}
        F[i \in 0..Len(rows)] ==
            IF i = 0 THEN <<>> ELSE IF i \in keep THEN Append(F[i - 1], rows[i]) ELSE F[i - 1]
    IN  F[Len(rows)]

\* boolean indexing frame[mask]: the rows whose mask entry is True, in order
BoolIndex(rows, mask) ==
    LET marked == SelectSeq([i \in 1..Len(rows) |-> <<rows[i], mask[i]>>], LAMBDA p : p[2])
    IN  [k \in 1..Len(marked) |-> marked[k][1]]

Ok(f) == [raised |-> FALSE, frame |-> f]

KeyError(f) == [raised |-> TRUE, frame |-> f]

\* one `filtered_df = filtered_df[mask]` over the columns `need`
Select(f, need, mask) ==
    IF ~(need \subseteq f.cols) THEN KeyError(f)
    ELSE Ok(Frame(f.cols, BoolIndex(f.rows, mask)))

BoroughStep(f, filters) ==
    IF Active(filters.borough)
    THEN Select(f, {"BOROUGH"},
                [i \in 1..Len(f.rows) |-> StrCellEq(f.rows[i].BOROUGH, filters.borough)])
    ELSE Ok(f)

\* the year block converting a year given as text instead of skipping it
YearStep_Coerce(f, filters) ==
    IF Active(filters.year)
    THEN Select(f, {"CRASH_YEAR"},
                [i \in 1..Len(f.rows) |->
                    NumCellEq(f.rows[i].CRASH_YEAR,
                              IF filters.year.t = "str" THEN PyInt(ParseInt(filters.year.s))
                              ELSE filters.year)])
    ELSE Ok(f)

YearStep(f, filters) ==
    IF Active(filters.year) /\ filters.year.t = "int"
    THEN Select(f, {"CRASH_YEAR"},
                [i \in 1..Len(f.rows) |-> NumCellEq(f.rows[i].CRASH_YEAR, filters.year)])
    ELSE Ok(f)

\* the vehicle type block comparing the first vehicle column only
VehicleStep_FirstColumnOnly(f, filters) ==
    IF Active(filters.vehicle_type)
    THEN Select(f, {"VEHICLE_TYPE_CODE_1", "VEHICLE_TYPE_CODE_2"},
                [i \in 1..Len(f.rows) |->
                    StrCellEq(f.rows[i].VEHICLE_TYPE_CODE_1, filters.vehicle_type)])
    ELSE Ok(f)

VehicleStep(f, filters) ==
    IF Active(filters.vehicle_type)
    THEN Select(f, {"VEHICLE_TYPE_CODE_1", "VEHICLE_TYPE_CODE_2"},
                [i \in 1..Len(f.rows) |->
                    \/ StrCellEq(f.rows[i].VEHICLE_TYPE_CODE_1, filters.vehicle_type)
                    \/ StrCellEq(f.rows[i].VEHICLE_TYPE_CODE_2, filters.vehicle_type)])
    ELSE Ok(f)

FactorStep(f, filters) ==
    IF Active(filters.contributing_factor)
    THEN Select(f, {"CONTRIBUTING_FACTOR_VEHICLE_1", "CONTRIBUTING_FACTOR_VEHICLE_2"},
                [i \in 1..Len(f.rows) |->
                    \/ StrCellEq(f.rows[i].CONTRIBUTING_FACTOR_VEHICLE_1, filters.contributing_factor)
                    \/ StrCellEq(f.rows[i].CONTRIBUTING_FACTOR_VEHICLE_2, filters.contributing_factor)])
    ELSE Ok(f)

InjuryStep(f, filters) ==
    IF ~Active(filters.injury_type) THEN Ok(f)
    ELSE IF PyEq(filters.injury_type, PyStr(S_Pedestrian))
    THEN Select(f, {"NUMBER_OF_PEDESTRIANS_INJURED", "NUMBER_OF_PEDESTRIANS_KILLED"},
                [i \in 1..Len(f.rows) |->
                    \/ Positive(f.rows[i].NUMBER_OF_PEDESTRIANS_INJURED)
                    \/ Positive(f.rows[i].NUMBER_OF_PEDESTRIANS_KILLED)])
    ELSE IF PyEq(filters.injury_type, PyStr(S_Cyclist))
    THEN Select(f, {"NUMBER_OF_CYCLIST_INJURED", "NUMBER_OF_CYCLIST_KILLED"},
                [i \in 1..Len(f.rows) |->
                    \/ Positive(f.rows[i].NUMBER_OF_CYCLIST_INJURED)
                    \/ Positive(f.rows[i].NUMBER_OF_CYCLIST_KILLED)])
    ELSE IF PyEq(filters.injury_type, PyStr(S_Motorist))
    THEN Select(f, {"NUMBER_OF_MOTORIST_INJURED", "NUMBER_OF_MOTORIST_KILLED"},
                [i \in 1..Len(f.rows) |->
                    \/ Positive(f.rows[i].NUMBER_OF_MOTORIST_INJURED)
                    \/ Positive(f.rows[i].NUMBER_OF_MOTORIST_KILLED)])
    ELSE Ok(f)

\* apply_filters(df, filters): the five blocks in the order of the code; an
\* exception in one block ends the call
apply_filters(df, filters) ==
    LET s1 == BoroughStep(df, filters)
        s2 == IF s1.raised THEN s1 ELSE YearStep(s1.frame, filters)
        s3 == IF s2.raised THEN s2 ELSE VehicleStep(s2.frame, filters)
        s4 == IF s3.raised THEN s3 ELSE FactorStep(s3.frame, filters)
    IN  IF s4.raised THEN s4 ELSE InjuryStep(s4.frame, filters)

(***************************************************************************)
(* get_dropdown_options.  A result is [raised, options].                   *)
(***************************************************************************)
\* the characters of the model in code point order, the order sorted() uses
CodePoints == <<" ", "'", "(", "-", ".", "/">> \o DigitChars \o UpperChars \o <<"_">> \o LowerChars

Ord(c) == IndexOf(CodePoints, c)

\* Python's < on two strings
StrLess(a, b) ==
    \E k \in 1..(Len(b)) :
        /\ \A j \in 1..(k - 1) : j <= Len(a) /\ a[j] = b[j]
        /\ (k > Len(a) \/ Ord(a[k]) < Ord(b[k]))

\* sorted() on a set of strings
RECURSIVE SortStrings(_)
SortStrings(S) ==
    IF S = {} THEN <<>>
    ELSE LET lo == CHOOSE x \in S : \A y \in S \ {x} : StrLess(x, y)
         IN  <<lo>> \o SortStrings(S \ {lo})

\* sorted() on a set of integers
RECURSIVE SortInts(_)
SortInts(S) ==
    IF S = {} THEN <<>>
    ELSE LET lo == CHOOSE x \in S : \A y \in S : x <= y
         IN  <<lo>> \o SortInts(S \ {lo})

\* str.strip()
RECURSIVE Strip(_)
Strip(x) ==
    IF x = <<>> THEN x
    ELSE IF Head(x) = " " THEN Strip(Tail(x))
    ELSE IF x[Len(x)] = " " THEN Strip(SubSeq(x, 1, Len(x) - 1))
    ELSE x

\* a column of a frame as a sequence of cells
Column(f, col) == [i \in 1..Len(f.rows) |-> f.rows[i][col]]

\* DataFrame.empty: no rows or no columns
Empty(f) == f.rows = <<>> \/ f.cols = {}

S_nan == <<"n","a","n">>
S_None == <<"N","o","n","e">>
S_Unknown == <<"U","n","k","n","o","w","n">>

\* the borough block
BoroughOptions(f) ==
    SortStrings({b \in Range(Column(f, "BOROUGH")) : b # <<>> /\ Strip(b) # <<>>})

MinYear == 1900

MaxYear == 2100

\* the year block
YearOptions(f) ==
    SortInts({y \in Range(Column(f, "CRASH_YEAR")) : y # NaN /\ y >= MinYear /\ y <= MaxYear})

\* pd.concat of the two vehicle type columns
PooledVehicles(f) == Column(f, "VEHICLE_TYPE_CODE_1") \o Column(f, "VEHICLE_TYPE_CODE_2")

\* vehicle_counts.get(x, 0)
VehicleCount(f, x) ==
    Cardinality({i \in 1..Len(f.rows) : f.rows[i].VEHICLE_TYPE_CODE_1 = x})
    + Cardinality({i \in 1..Len(f.rows) : f.rows[i].VEHICLE_TYPE_CODE_2 = x})

\* the orders of <<value, count>> pairs, most frequent first, values of equal
\* frequency in any order
RECURSIVE OrdersByCount(_)
OrdersByCount(counted) ==
    IF counted = {} THEN {<<>>}
    ELSE LET top == {p \in counted : \A q \in counted : q[2] <= p[2]}
         IN  UNION {{<<p[1]>> \o o : o \in OrdersByCount(counted \ {p})} : p \in top}

CountOrders(f, S) == OrdersByCount({<<x, VehicleCount(f, x)>> : x \in S})

\* the orders value_counts() may list the distinct pooled values in
ValueCountsOrders(f) == CountOrders(f, Range(PooledVehicles(f)))

VehicleInvalidPatterns ==
    {<<>>, S_nan, S_None, S_Unknown, <<"-">>, <<".">>} \cup {<<DigitChars[i]>> : i \in 1..10}

MinVehicleLen == 4

MinVehicleLetters == 2

\* the validity test of a stripped vehicle type
ValidVehicle(v_str) ==
    /\ v_str # <<>>
    /\ v_str \notin VehicleInvalidPatterns
    /\ Len(v_str) >= MinVehicleLen
    /\ ~(\A i \in 1..Len(v_str) : IsDigit(v_str[i]))
    /\ v_str[1] # "'"
    /\ v_str[1] # "("
    /\ ~IsDigit(v_str[1])
    /\ Cardinality({i \in 1..Len(v_str) : IsAlpha(v_str[i])}) >= MinVehicleLetters

\* valid_vehicle_types: the stripped valid values, in value_counts order
ValidVehicleTypes(order) ==
    LET F[i \in 0..Len(order)] ==
            IF i = 0 THEN <<>>
            ELSE IF ValidVehicle(Strip(order[i])) THEN Append(F[i - 1], Strip(order[i]))
            ELSE F[i - 1]
    IN  F[Len(order)]

\* list.remove(x): the list without the first occurrence of x
RemoveFirst(l, x) ==
    LET i == CHOOSE k \in 1..Len(l) : l[k] = x /\ \A j \in 1..(k - 1) : l[j] # x
    IN  SubSeq(l, 1, i - 1) \o SubSeq(l, i + 1, Len(l))

\* the case-insensitive de-duplication loop: seen_lower is a function from
\* lower-cased labels to the label kept, deduplicated the list built
Deduplicate(f, valid) ==
    LET F[i \in 0..Len(valid)] ==
            IF i = 0 THEN [seen_lower |-> <<>>, deduplicated |-> <<>>]
            ELSE LET st == F[i - 1]
                     v_type == valid[i]
                     v_lower == Lower(v_type)
                     at == {k \in 1..Len(st.seen_lower) : st.seen_lower[k][1] = v_lower}
                 IN  IF at = {}
                     THEN [seen_lower |-> Append(st.seen_lower, <<v_lower, v_type>>),
                           deduplicated |-> Append(st.deduplicated, v_type)]
                     ELSE LET k == CHOOSE x \in at : TRUE
                              existing == st.seen_lower[k][2]
                          IN  IF VehicleCount(f, v_type) > VehicleCount(f, existing)
                              THEN [seen_lower |-> [st.seen_lower EXCEPT ![k] = <<v_lower, v_type>>],
                                    deduplicated |-> Append(RemoveFirst(st.deduplicated, existing), v_type)]
                              ELSE st
    IN  F[Len(valid)].deduplicated

TopVehicleTypes == 50

\* sorted(..., key=(count, label), reverse=True) over <<label, count>> pairs:
\* the greatest (count, label) first
RECURSIVE SortByKeyDesc(_)
SortByKeyDesc(counted) ==
    IF counted = {} THEN <<>>
    ELSE LET hi == CHOOSE p \in counted : \A q \in counted \ {p} :
                       \/ q[2] < p[2]
                       \/ q[2] = p[2] /\ StrLess(q[1], p[1])
         IN  <<hi[1]>> \o SortByKeyDesc(counted \ {hi})

SortByCountDesc(f, S) == SortByKeyDesc({<<x, VehicleCount(f, x)>> : x \in S})

\* the first n entries of a list
Take(l, n) == SubSeq(l, 1, IF Len(l) < n THEN Len(l) ELSE n)

\* the vehicle type block, for one order of value_counts()
VehicleOptions(f, order) ==
    LET deduplicated == Deduplicate(f, ValidVehicleTypes(order))
        sorted_types == Take(SortByCountDesc(f, Range(deduplicated)), TopVehicleTypes)
    IN  SortStrings(Range(sorted_types))

FactorInvalidPatterns ==
    {<<>>, S_nan, S_None, S_Unspecified, S_Unknown, <<"-">>, <<".">>, <<"0">>, <<"1">>, <<"2">>}

MinFactorLen == 3

\* the validity test of a stripped contributing factor
ValidFactor(f_str) ==
    /\ f_str # <<>>
    /\ f_str \notin FactorInvalidPatterns
    /\ Len(f_str) > MinFactorLen
    /\ ~(\A i \in 1..Len(f_str) : IsDigit(f_str[i]))
    /\ \E i \in 1..Len(f_str) : IsAlpha(f_str[i])

\* the contributing factor block
FactorOptions(f) ==
    LET f1 == Range(Column(f, "CONTRIBUTING_FACTOR_VEHICLE_1"))
        f2 == IF "CONTRIBUTING_FACTOR_VEHICLE_2" \in f.cols
              THEN Range(Column(f, "CONTRIBUTING_FACTOR_VEHICLE_2")) ELSE {}
    IN  SortStrings({Strip(x) : x \in {y \in f1 \cup f2 : ValidFactor(Strip(y))}})

InjuryTypeOptions == <<S_All, S_Pedestrian, S_Cyclist, S_Motorist>>

EmptyOptions == [boroughs |-> <<>>, years |-> <<>>, vehicle_types |-> <<>>,
                 contributing_factors |-> <<>>, injury_types |-> InjuryTypeOptions]

\* get_dropdown_options(df), for one order of value_counts()
get_dropdown_options(f, order) ==
    IF Empty(f) THEN [raised |-> FALSE, options |-> EmptyOptions]
    ELSE IF "VEHICLE_TYPE_CODE_1" \in f.cols /\ "VEHICLE_TYPE_CODE_2" \notin f.cols
    THEN [raised |-> TRUE, options |-> EmptyOptions]
    ELSE [raised |-> FALSE,
          options |->
            [boroughs |-> IF "BOROUGH" \in f.cols THEN BoroughOptions(f) ELSE <<>>,
             years |-> IF "CRASH_YEAR" \in f.cols THEN YearOptions(f) ELSE <<>>,
             vehicle_types |-> IF "VEHICLE_TYPE_CODE_1" \in f.cols
                               THEN VehicleOptions(f, order) ELSE <<>>,
             contributing_factors |-> IF "CONTRIBUTING_FACTOR_VEHICLE_1" \in f.cols
                                      THEN FactorOptions(f) ELSE <<>>,
             injury_types |-> InjuryTypeOptions]]

\* the results get_dropdown_options(df) can have
DropdownOptionResults(f) == {get_dropdown_options(f, order) : order \in ValueCountsOrders(f)}

(***************************************************************************)
(* calculate_summary_stats and create_all_visualizations                   *)
(***************************************************************************)
\* Series.sum(): the sum of the cells that are not NaN
RECURSIVE SumCells(_, _, _)
SumCells(cells, lo, hi) ==
    IF lo > hi THEN 0
    ELSE IF lo = hi THEN (IF cells[lo] = NaN THEN 0 ELSE cells[lo])
    ELSE SumCells(cells, lo, (lo + hi) \div 2) + SumCells(cells, (lo + hi) \div 2 + 1, hi)

SumColumn(f, col) == SumCells(Column(f, col), 1, Len(f.rows))

\* the three totals of the summary
SummaryTotals(filtered_df) ==
    [total_crashes |-> Len(filtered_df.rows),
     total_injured |-> IF "TOTAL_INJURED" \in filtered_df.cols
                       THEN SumColumn(filtered_df, "TOTAL_INJURED")
                       ELSE IF "NUMBER_OF_PERSONS_INJURED" \in filtered_df.cols
                       THEN SumColumn(filtered_df, "NUMBER_OF_PERSONS_INJURED") ELSE 0,
     total_killed |-> IF "TOTAL_KILLED" \in filtered_df.cols
                      THEN SumColumn(filtered_df, "TOTAL_KILLED")
                      ELSE IF "NUMBER_OF_PERSONS_KILLED" \in filtered_df.cols
                      THEN SumColumn(filtered_df, "NUMBER_OF_PERSONS_KILLED") ELSE 0]

\* the summary with the average divided without the test of total_crashes:
\* the division faults on no record, and the except clause leaves stats empty
calculate_summary_stats_Unguarded(filtered_df) ==
    LET t == SummaryTotals(filtered_df)
    IN  IF t.total_crashes = 0 THEN <<>>
        ELSE <<[total_crashes |-> t.total_crashes,
                total_injured |-> t.total_injured,
                total_killed |-> t.total_killed,
                avg_injured |-> <<t.total_injured, t.total_crashes>>]>>

\* calculate_summary_stats(filtered_df): the numbers the four cards show; the
\* average is kept as the fraction total_injured / total_crashes
calculate_summary_stats(filtered_df) ==
    LET t == SummaryTotals(filtered_df)
    IN  <<[total_crashes |-> t.total_crashes,
           total_injured |-> t.total_injured,
           total_killed |-> t.total_killed,
           avg_injured |-> IF t.total_crashes > 0 THEN <<t.total_injured, t.total_crashes>>
                           ELSE <<0, 1>>]>>

\* whether some row has a value in every one of the columns
SomeRowHas(f, columns) == \E i \in 1..Len(f.rows) : \A col \in columns : f.rows[i][col] # NaN

\* chart 1, crashes by borough (string cells are never null)
BoroughChart(f) == "BOROUGH" \in f.cols /\ Len(f.rows) > 0

\* chart 2, crashes by year
YearChart(f) == "CRASH_YEAR" \in f.cols /\ SomeRowHas(f, {"CRASH_YEAR"})

\* chart 3, injuries and fatalities by year
TrendsChart(f) == {"CRASH_YEAR", "TOTAL_INJURED", "TOTAL_KILLED"} \subseteq f.cols

\* the number of rows with an injury, the killed column left out of the test
CasualtyCount_InjuredOnly(f, injured, killed) ==
    Cardinality({i \in 1..Len(f.rows) : Positive(f.rows[i][injured])})

\* the number of rows with a casualty in the pair of columns
CasualtyCount(f, injured, killed) ==
    Cardinality({i \in 1..Len(f.rows) : Positive(f.rows[i][injured]) \/ Positive(f.rows[i][killed])})

\* chart 4, the injury type buckets: [raised, injury_data]; an injured column
\* without its killed column raises inside the block
InjuryData(f) ==
    LET classes == << <<"Pedestrian", "NUMBER_OF_PEDESTRIANS_INJURED", "NUMBER_OF_PEDESTRIANS_KILLED">>,
                      <<"Cyclist", "NUMBER_OF_CYCLIST_INJURED", "NUMBER_OF_CYCLIST_KILLED">>,
                      <<"Motorist", "NUMBER_OF_MOTORIST_INJURED", "NUMBER_OF_MOTORIST_KILLED">> >>
        F[i \in 0..3] ==
            IF i = 0 THEN [raised |-> FALSE, injury_data |-> <<>>]
            ELSE IF F[i - 1].raised \/ classes[i][2] \notin f.cols THEN F[i - 1]
            ELSE IF classes[i][3] \notin f.cols THEN [raised |-> TRUE, injury_data |-> <<>>]
            ELSE IF CasualtyCount(f, classes[i][2], classes[i][3]) > 0
            THEN [raised |-> FALSE,
                  injury_data |-> Append(F[i - 1].injury_data,
                                         [Type |-> classes[i][1],
                                          Count |-> CasualtyCount(f, classes[i][2], classes[i][3])])]
            ELSE F[i - 1]
    IN  F[3]

InjuryChart(f) == ~InjuryData(f).raised /\ InjuryData(f).injury_data # <<>>

\* chart 5, crashes by hour and weekday
HeatmapChart(f) ==
    /\ {"CRASH_HOUR", "CRASH_WEEKDAY"} \subseteq f.cols
    /\ SomeRowHas(f, {"CRASH_HOUR", "CRASH_WEEKDAY"})

max_points == 2000

\* no map frame yet
NoMapFrame == [cols |-> {}, rows |-> <<>>]

\* the rows of the map: both coordinates present and not zero
MapRows(f) ==
    BoolIndex(f.rows, [i \in 1..Len(f.rows) |->
                          /\ f.rows[i].LATITUDE # NaN /\ f.rows[i].LONGITUDE # NaN
                          /\ f.rows[i].LATITUDE # 0 /\ f.rows[i].LONGITUDE # 0])

\* rng: the draws of the generator numpy seeds with random_state=42, the same
\* at every call; cfigs: the figures built so far, one entry per call of
\* create_all_visualizations
VARIABLES rng, cfigs

Generators == <<"head", "tail", "spread">>

\* the n positions out of len that a generator draws
Drawn(g, len, n) ==
    IF g = "head" THEN 1..n
    ELSE IF g = "tail" THEN (len - n + 1)..len
    ELSE {i \in 1..len : (i * n) \div len # ((i - 1) * n) \div len}

\* sample(n) without random_state: the draws come from the global generator,
\* which every call advances
Sample_Unseeded(rows, n) ==
    LET g == Generators[(Len(cfigs) % Len(Generators)) + 1]
    IN  BoolIndex(rows, [i \in 1..Len(rows) |-> i \in Drawn(g, Len(rows), n)])

\* DataFrame.sample(n, random_state=42): n of the rows, drawn by a generator
\* seeded anew at every call (the rows are kept in their order here)
Sample(rows, n) ==
    BoolIndex(rows, [i \in 1..Len(rows) |-> i \in Drawn(rng, Len(rows), n)])

\* the size without the 1 added to the severity
PointSize_NoOffset(f, r) ==
    IF "TOTAL_INJURED" \in f.cols
    THEN LET killed == IF "TOTAL_KILLED" \in f.cols THEN r.TOTAL_KILLED ELSE 0
         IN  IF r.TOTAL_INJURED = NaN \/ killed = NaN THEN NaN
             ELSE r.TOTAL_INJURED + killed * 10
    ELSE 3

\* the size of one point of the map
PointSize(f, r) ==
    IF "TOTAL_INJURED" \in f.cols
    THEN LET killed == IF "TOTAL_KILLED" \in f.cols THEN r.TOTAL_KILLED ELSE 0
         IN  IF r.TOTAL_INJURED = NaN \/ killed = NaN THEN NaN
             ELSE r.TOTAL_INJURED + killed * 10 + 1
    ELSE 3

\* a map block that adds the size column to the frame it was passed
MapObject_InPlace == "filtered_df"

\* the object whose rows the map block selects and gives a size column: the
\* copy it makes of the selection, not the frame it was passed
MapObject == "map_df"

\* chart 6, the map, on the objects `objects` (a record of frames by name):
\* [objects, chart]; the size column is assigned before the figure is built,
\* and the figure needs the hover columns
MapBlock(objects) ==
    LET f == objects.filtered_df
        selected == MapRows(f)
        sampled == IF Len(selected) > max_points THEN Sample(selected, max_points) ELSE selected
        map_df == Frame(f.cols \cup {"size"},
                        [i \in 1..Len(sampled) |->
                            [sampled[i] EXCEPT !.size = PointSize(f, sampled[i])]])
    IN  IF ~({"LATITUDE", "LONGITUDE"} \subseteq f.cols) \/ Len(selected) = 0
        THEN [objects |-> objects, chart |-> FALSE]
        ELSE [objects |-> [objects EXCEPT ![MapObject] = map_df],
              chart |-> {"BOROUGH", "CRASH_YEAR"} \subseteq f.cols]

\* chart 7, the contributing factors
FactorsChart(f) ==
    /\ {"CONTRIBUTING_FACTOR_VEHICLE_1", "CONTRIBUTING_FACTOR_VEHICLE_2"} \subseteq f.cols
    /\ \E i \in 1..Len(f.rows) :
           \/ f.rows[i].CONTRIBUTING_FACTOR_VEHICLE_1 # S_Unspecified
           \/ f.rows[i].CONTRIBUTING_FACTOR_VEHICLE_2 # S_Unspecified

TopFactors == 10

\* the pooled factor cells with the sentinel left in
PooledFactors_WithSentinel(f) ==
    Column(f, "CONTRIBUTING_FACTOR_VEHICLE_1") \o Column(f, "CONTRIBUTING_FACTOR_VEHICLE_2")

\* the pooled factor cells without the sentinel
PooledFactors(f) ==
    SelectSeq(Column(f, "CONTRIBUTING_FACTOR_VEHICLE_1")
              \o Column(f, "CONTRIBUTING_FACTOR_VEHICLE_2"),
              LAMBDA x : x # S_Unspecified)

FactorCount(f, x) ==
    Cardinality({i \in 1..Len(f.rows) : f.rows[i].CONTRIBUTING_FACTOR_VEHICLE_1 = x})
    + Cardinality({i \in 1..Len(f.rows) : f.rows[i].CONTRIBUTING_FACTOR_VEHICLE_2 = x})

\* the orders value_counts() may list the pooled factors in
FactorOrders(f) ==
    IF {"CONTRIBUTING_FACTOR_VEHICLE_1", "CONTRIBUTING_FACTOR_VEHICLE_2"} \subseteq f.cols
    THEN OrdersByCount({<<x, FactorCount(f, x)>> : x \in Range(PooledFactors(f))})
    ELSE {<<>>}

\* factor_counts = factors.value_counts().head(10): <<Factor, Count>> rows
FactorSeries(f, order) ==
    [i \in 1..Len(Take(order, TopFactors)) |-> <<order[i], FactorCount(f, order[i])>>]

\* chart 8, crashes by month
MonthChart(f) == "CRASH_MONTH" \in f.cols /\ SomeRowHas(f, {"CRASH_MONTH"})

month_order == <<"January", "February", "March", "April", "May", "June",
                 "July", "August", "September", "October", "November", "December">>

\* a month_map whose keys start at 0
MonthName_ZeroBased(code) ==
    IF code + 1 \in 1..Len(month_order) THEN month_order[code + 1] ELSE "nan"

\* Series.map(month_map): the name of a numeric month, NaN for any other code
MonthName(code) == IF code \in 1..Len(month_order) THEN month_order[code] ELSE "nan"

\* groupby('CRASH_MONTH').size() with the codes mapped: one <<Month, Count>>
\* row for each code of the subset, in ascending order of the codes
MonthCounts(f) ==
    LET codes == SortInts(Range(Column(f, "CRASH_MONTH")) \ {NaN})
    IN  [i \in 1..Len(codes) |->
            [Month |-> MonthName(codes[i]),
             Count |-> Cardinality({j \in 1..Len(f.rows) : f.rows[j].CRASH_MONTH = codes[i]})]]

\* sort_values('Month', key = the position in month_order): the rows with a
\* name by position, the rows without one after them in the order they had
SortByMonthOrder(month_counts) ==
    LET named == SelectSeq(month_counts, LAMBDA e : e.Month \in Range(month_order))
        others == SelectSeq(month_counts, LAMBDA e : e.Month \notin Range(month_order))
        rank(e) == Cardinality({x \in Range(named) :
                                   IndexOf(month_order, x.Month) < IndexOf(month_order, e.Month)})
    IN  [k \in 1..Len(named) |-> CHOOSE e \in Range(named) : rank(e) = k - 1] \o others

\* the rows of the month chart
MonthSeries(f) == SortByMonthOrder(MonthCounts(f))

\* create_all_visualizations(filtered_df) on the objects `objects`:
\* [objects, message, visualizations]; the charts built are listed by name in
\* the order of the code, and the message replaces an empty list
create_all_visualizations(objects) ==
    LET f == objects.filtered_df
        map == MapBlock(objects)
        built == << <<"borough", BoroughChart(f)>>, <<"year", YearChart(f)>>,
                    <<"trends", TrendsChart(f)>>, <<"injury", InjuryChart(f)>>,
                    <<"heatmap", HeatmapChart(f)>>, <<"map", map.chart>>,
                    <<"factors", FactorsChart(f)>>, <<"month", MonthChart(f)>> >>
        F[i \in 0..Len(built)] ==
            IF i = 0 THEN <<>>
            ELSE IF built[i][2] THEN Append(F[i - 1], built[i][1]) ELSE F[i - 1]
        visualizations == F[Len(built)]
    IN  [objects |-> map.objects,
         message |-> IF visualizations = <<>> THEN "Unable to Create Visualizations" ELSE "",
         visualizations |-> visualizations]

\* the data of the figures create_all_visualizations(filtered_df) builds, for
\* one order of value_counts(): the chart names, the points of the map, the
\* injury type buckets and the factor rows
Figures(filtered_df, order) ==
    LET created == create_all_visualizations([filtered_df |-> filtered_df, map_df |-> NoMapFrame])
        built == Range(created.visualizations)
    IN  [charts |-> created.visualizations,
         points |-> IF "map" \in built THEN created.objects.map_df.rows ELSE <<>>,
         injury |-> IF "injury" \in built THEN InjuryData(filtered_df).injury_data ELSE <<>>,
         factors |-> IF "factors" \in built THEN FactorSeries(filtered_df, order) ELSE <<>>,
         months |-> IF "month" \in built THEN MonthSeries(filtered_df) ELSE <<>>]

(***************************************************************************)
(* The filter engine on its own: a dataset with the full schema and a      *)
(* criteria record are drawn, the filter is applied, and applied again to  *)
(* its own result.                                                         *)
(***************************************************************************)
S_Driver == <<"D","r","i","v","e","r">>

BoroughInputs == {PyNone, All, PyStr(S_BROOKLYN), PyStr(S_BRONX)}

YearInputs == {PyNone, All, PyInt(2021), PyStr(<<"2","0","2","1">>)}

VehicleInputs == {PyNone, All, PyStr(S_Sedan), PyStr(S_Bus)}

FactorInputs == {PyNone, All, PyStr(S_Unsafe_Speed), PyStr(S_Unspecified)}

InjuryInputs == {PyNone, All, PyStr(S_Pedestrian), PyStr(S_Cyclist), PyStr(S_Motorist),
                 PyStr(S_Driver)}

Criteria == [borough : BoroughInputs, year : YearInputs, vehicle_type : VehicleInputs,
             contributing_factor : FactorInputs, injury_type : InjuryInputs]

FilterDatasets == {Frame(FullSchema, rows) : rows \in RowSeqs \cup {ScenarioRows}}

VARIABLES fdf, fopts, fcrit, fonce, ftwice, fpc

fvars == <<fdf, fopts, fcrit, fonce, ftwice, fpc>>

\* the dataset is loaded, its option sets are computed, criteria are chosen
FilterInit == /\ fdf \in FilterDatasets
              /\ fopts \in DropdownOptionResults(fdf)
              /\ fcrit \in Criteria
              /\ fonce = Ok(Frame({}, <<>>))
              /\ ftwice = Ok(Frame({}, <<>>))
              /\ fpc = "input"

\* filtered_df = apply_filters(df, filters)
FilterOnce == /\ fpc = "input"
              /\ fonce' = apply_filters(fdf, fcrit)
              /\ fpc' = "once"
              /\ UNCHANGED <<fdf, fopts, fcrit, ftwice>>

\* apply_filters(filtered_df, filters), when the first call returned
FilterTwice == /\ fpc = "once"
               /\ ~fonce.raised
               /\ ftwice' = apply_filters(fonce.frame, fcrit)
               /\ fpc' = "twice"
               /\ UNCHANGED <<fdf, fopts, fcrit, fonce>>

\* the filter engine is not exercised on its own
FilterIdle == /\ fdf = Frame({}, <<>>)
              /\ fopts = [raised |-> FALSE, options |-> EmptyOptions]
              /\ fcrit = NoFilters
              /\ fonce = Ok(Frame({}, <<>>))
              /\ ftwice = Ok(Frame({}, <<>>))
              /\ fpc = "idle"

(***************************************************************************)
(* The dashboard.  df and dropdown_options are the module-level objects    *)
(* built at startup; dd holds the values of the five dropdowns in the      *)
(* browser, which apply_search writes and update_visualizations is passed. *)
(* last is the latest request with what it returned, and memo is an        *)
(* earlier request kept for comparison.                                    *)
(***************************************************************************)
Dimensions == {"borough", "year", "vehicle_type", "contributing_factor", "injury_type"}

\* the five dropdowns as the layout creates them: value='All'
AllSelected == [borough |-> All, year |-> All, vehicle_type |-> All,
                contributing_factor |-> All, injury_type |-> All]

NoFrame == Frame({}, <<>>)

\* the datasets the dashboard is started on: the full schema, a file without
\* the borough column, a file with the identifier column only, a file with
\* the pedestrian counts only, a record with hardly any value, and no record
\* at all
AppDatasets == { Frame(FullSchema, <<R1, R3, R2>>),
                 Frame(FullSchema \ {"BOROUGH"}, <<R1, R3>>),
                 Frame({"COLLISION_ID"}, <<R1, R3>>),
                 Frame({"COLLISION_ID", "NUMBER_OF_PEDESTRIANS_INJURED",
                        "NUMBER_OF_PEDESTRIANS_KILLED"}, <<R3, R4>>),
                 Frame(FullSchema, <<R6>>),
                 Frame(FullSchema, <<>>) }

\* the texts typed into the search box
SearchTexts == { PyNone, PyStr(<<>>),
                 PyStr(Concat(<<K_brooklyn, <<" ">>, K_driver>>)),
                 PyStr(Concat(<<K_queens, <<" ">>, <<"2","0","2","2">>>>)),
                 PyStr(K_bronx) }

\* the dropdown entries the user picks, where the dropdown offers them
UserPicks == {All, PyStr(S_BROOKLYN), PyStr(S_Pedestrian)}

\* the number of times a button has been clicked, as passed to a callback
MaxClicks == 2

VARIABLES df, dropdown_options, dd, last, memo

avars == <<df, dropdown_options, dd, last, memo>>

\* the values a dropdown offers: 'All' and the entries of its option list
Offered(dimension) ==
    CASE dimension = "borough" ->
             {All} \cup {PyStr(b) : b \in Range(dropdown_options.boroughs)}
      [] dimension = "year" ->
             {All} \cup {PyInt(y) : y \in Range(dropdown_options.years) \ {NaN}}
      [] dimension = "vehicle_type" ->
             {All} \cup {PyStr(v) : v \in Range(dropdown_options.vehicle_types) \ {<<>>}}
      [] dimension = "contributing_factor" ->
             {All} \cup {PyStr(c) : c \in Range(dropdown_options.contributing_factors) \ {<<>>}}
      [] dimension = "injury_type" ->
             {PyStr(it) : it \in Range(dropdown_options.injury_types)}

\* a search callback that leaves the dropdowns of the dimensions the query
\* does not mention as they are
apply_search_KeepSelection(n_clicks, search_query) ==
    IF ~Truthy(search_query) THEN dd
    ELSE LET filters == parse_search_query(search_query)
         IN  [d \in Dimensions |-> IF Truthy(filters[d]) THEN filters[d] ELSE dd[d]]

\* apply_search(n_clicks, search_query): the five values written to the
\* dropdowns
apply_search(n_clicks, search_query) ==
    IF ~Truthy(search_query) THEN AllSelected
    ELSE LET filters == parse_search_query(search_query)
         IN  [borough |-> IF Truthy(filters.borough) THEN filters.borough ELSE All,
              year |-> IF Truthy(filters.year) THEN filters.year ELSE All,
              vehicle_type |-> IF Truthy(filters.vehicle_type)
                               THEN filters.vehicle_type ELSE All,
              contributing_factor |-> IF Truthy(filters.contributing_factor)
                                      THEN filters.contributing_factor ELSE All,
              injury_type |-> IF Truthy(filters.injury_type)
                              THEN filters.injury_type ELSE All]

\* what a report callback returns: a message in place of the charts or the
\* list of charts, and the summary cards ([] when there are none)
Response(message, visualizations, summary_stats) ==
    [message |-> message, visualizations |-> visualizations, summary_stats |-> summary_stats]

\* a report callback without the test for an empty filtered frame
EmptyFiltered_Never(filtered_df) == FALSE

\* `len(filtered_df) == 0`
EmptyFiltered(filtered_df) == Len(filtered_df.rows) = 0

\* update_visualizations(n_clicks, borough, year, vehicle_type,
\* contributing_factor, injury_type) on the module-level df: the response,
\* the frames by name when it returns (df, and the filtered_df and map_df it
\* created), whether apply_filters raised, and the frame it passed to
\* calculate_summary_stats and create_all_visualizations
update_visualizations(n_clicks, borough, year, vehicle_type, contributing_factor, injury_type) ==
    LET filters == [borough |-> borough, year |-> year, vehicle_type |-> vehicle_type,
                    contributing_factor |-> contributing_factor,
                    injury_type |-> injury_type]
        started == [df |-> df, filtered_df |-> NoFrame, map_df |-> NoFrame]
        result == apply_filters(df, filters)
        filtered == [started EXCEPT !.filtered_df = result.frame]
        summary_stats == calculate_summary_stats(result.frame)
        created == create_all_visualizations(filtered)
    IN  IF Empty(df) \/ Len(df.rows) = 0
        THEN [response |-> Response("No Data Available", <<>>, <<>>),
              objects |-> started, raised |-> FALSE, passed |-> NoFrame]
        ELSE IF result.raised
        THEN [response |-> Response("Error Applying Filters", <<>>, <<>>),
              objects |-> started, raised |-> TRUE, passed |-> NoFrame]
        ELSE IF EmptyFiltered(result.frame)
        THEN [response |-> Response("No Data Matches Filters", <<>>, <<>>),
              objects |-> filtered, raised |-> FALSE, passed |-> NoFrame]
        ELSE [response |-> Response(created.message, created.visualizations, summary_stats),
              objects |-> created.objects, raised |-> FALSE, passed |-> result.frame]

NoResponse == Response("", <<>>, <<>>)

\* a request and what it returned.  A search has a query and the values it
\* wrote; a report has the five values it was passed, its response, and the
\* filtered frame as passed to the aggregation (passed) and as it is when the
\* callback returns (after)
Request(kind, search_query, filters, values, response, raised, passed, after) ==
    [kind |-> kind, query |-> search_query, filters |-> filters, values |-> values,
     response |-> response, raised |-> raised, passed |-> passed, after |-> after]

NoRequest == Request("none", PyNone, AllSelected, AllSelected, NoResponse, FALSE, NoFrame, NoFrame)

SameInputs(a, b) == a.kind = b.kind /\ a.query = b.query /\ a.filters = b.filters

\* memo after the request `request`: either the earlier request stays, and it
\* is noted when a request with other inputs has come after it, or this
\* request is kept from now on
Memos(request) ==
    { IF memo.request.kind = "none" \/ SameInputs(memo.request, request) THEN memo
      ELSE [memo EXCEPT !.between = TRUE],
      [request |-> request, between |-> FALSE] }

\* startup: load_data() and get_dropdown_options(df) have run
AppInit == /\ df \in AppDatasets
           /\ dropdown_options \in {r.options : r \in {x \in DropdownOptionResults(df) : ~x.raised}}
           /\ dd = AllSelected
           /\ last = NoRequest
           /\ memo = [request |-> NoRequest, between |-> FALSE]

\* the user picks an entry of one of the dropdowns
SelectDropdown ==
    \E dimension \in Dimensions :
        \E v \in (Offered(dimension) \cap UserPicks) \ {dd[dimension]} :
            /\ dd' = [dd EXCEPT ![dimension] = v]
            /\ UNCHANGED <<df, dropdown_options, last, memo>>

\* the search button: the callback runs on the text of the search box and
\* its five outputs are written to the dropdowns
ApplySearch ==
    \E n_clicks \in 1..MaxClicks : \E search_query \in SearchTexts :
        \E values \in {apply_search(n_clicks, search_query)} :
            /\ dd' = values
            /\ last' = Request("search", search_query, AllSelected, values,
                               NoResponse, FALSE, NoFrame, NoFrame)
            /\ memo' \in Memos(last')
            /\ UNCHANGED <<df, dropdown_options>>

\* the report button: the callback runs on the values of the five dropdowns
GenerateReport ==
    \E n_clicks \in 1..MaxClicks :
        \E r \in {update_visualizations(n_clicks, dd.borough, dd.year, dd.vehicle_type,
                                         dd.contributing_factor, dd.injury_type)} :
            /\ df' = r.objects.df
            /\ last' = Request("report", PyNone, dd, AllSelected, r.response, r.raised,
                               r.passed,
                               IF r.passed = NoFrame THEN NoFrame ELSE r.objects.filtered_df)
            /\ memo' \in Memos(last')
            /\ UNCHANGED <<dropdown_options, dd>>

\* the dashboard is not running
AppIdle == /\ df = NoFrame
           /\ dropdown_options = EmptyOptions
           /\ dd = AllSelected
           /\ last = NoRequest
           /\ memo = [request |-> NoRequest, between |-> FALSE]

(***************************************************************************)
(* The loader.  store is the data file, df = load_data() runs when the     *)
(* module is imported, and the requests come after it.                     *)
(***************************************************************************)
\* the columns of the empty frame returned for a missing file
ExpectedStructure ==
    {"CRASH_DATE", "CRASH_TIME", "BOROUGH", "ZIP_CODE", "LATITUDE", "LONGITUDE",
     "ON_STREET_NAME", "CROSS_STREET_NAME", "OFF_STREET_NAME",
     "NUMBER_OF_PERSONS_INJURED", "NUMBER_OF_PERSONS_KILLED",
     "NUMBER_OF_PEDESTRIANS_INJURED", "NUMBER_OF_PEDESTRIANS_KILLED",
     "NUMBER_OF_CYCLIST_INJURED", "NUMBER_OF_CYCLIST_KILLED",
     "NUMBER_OF_MOTORIST_INJURED", "NUMBER_OF_MOTORIST_KILLED",
     "CONTRIBUTING_FACTOR_VEHICLE_1", "CONTRIBUTING_FACTOR_VEHICLE_2",
     "COLLISION_ID", "VEHICLE_TYPE_CODE_1", "VEHICLE_TYPE_CODE_2",
     "CRASH_DATETIME", "CRASH_HOUR", "CRASH_DAY", "CRASH_WEEKDAY", "CRASH_MONTH",
     "CRASH_YEAR", "IS_WEEKEND", "TOTAL_PERSONS", "TOTAL_INJURED", "TOTAL_KILLED",
     "AVG_PERSON_AGE", "FEMALE_PERSONS", "MALE_PERSONS", "UNKNOWN_SEX"}

string_cols == {"VEHICLE_TYPE_CODE_1", "VEHICLE_TYPE_CODE_2",
                "CONTRIBUTING_FACTOR_VEHICLE_1", "CONTRIBUTING_FACTOR_VEHICLE_2", "BOROUGH"}

\* the cleaning of the file that was read: the records with a year outside
\* 1900..2100 are dropped and the string cells reading nan are emptied (the
\* numeric cells of the files drawn here are numbers or missing, which
\* to_numeric leaves as they are)
CleanData(file) ==
    LET kept == IF "CRASH_YEAR" \in file.cols
                THEN BoolIndex(file.rows,
                               [i \in 1..Len(file.rows) |->
                                   \/ file.rows[i].CRASH_YEAR = NaN
                                   \/ /\ file.rows[i].CRASH_YEAR >= MinYear
                                      /\ file.rows[i].CRASH_YEAR <= MaxYear])
                ELSE file.rows
    IN  Frame(file.cols,
              [i \in 1..Len(kept) |->
                  [col \in DOMAIN kept[i] |->
                      IF col \in string_cols \cap file.cols /\ kept[i][col] = S_nan
                      THEN S_Empty ELSE kept[i][col]]])

\* load_data() on the store s: the file is read and cleaned; a missing file
\* (FileNotFoundError) gives the empty frame with the expected structure, any
\* other failure of the read gives pd.DataFrame(), a frame without columns
load_data(s) ==
    IF s.state = "readable" THEN CleanData(s.file)
    ELSE IF s.state = "missing" THEN Frame(ExpectedStructure, <<>>)
    ELSE Frame({}, <<>>)

\* records of the file with a year out of range and with a cell reading nan
RawYear == Row(11, S_BRONX, 3000, 1, 8, 1, 40, 74, S_Sedan, S_Taxi,
               S_Alcohol, S_Unspecified, <<1, 0>>, <<0, 0>>, <<0, 0>>)

RawNan == Row(12, S_nan, 2021, 1, 8, 1, 40, 74, S_nan, S_Taxi,
              S_Alcohol, S_nan, <<0, 0>>, <<0, 1>>, <<0, 0>>)

RawPool == {R1, R2, R5, RawYear, RawNan}

\* the stores: no file, a file that cannot be read, and files that can
Stores ==
    {[state |-> "missing", file |-> NoFrame], [state |-> "unreadable", file |-> NoFrame]}
    \cup {[state |-> "readable", file |-> Frame(cols, rows)] :
             cols \in {FullSchema, FullSchema \ {"CRASH_YEAR"}},
             rows \in UNION {[1..n -> RawPool] : n \in 0..MaxRows}}

VARIABLES store, lpc

lvars == <<store, lpc>>

\* the module is about to be imported
LoaderInit == /\ store \in Stores
              /\ lpc = "import"
              /\ AppIdle

\* df = load_data() and dropdown_options = get_dropdown_options(df)
LoadData ==
    /\ lpc = "import"
    /\ df' = load_data(store)
    /\ dropdown_options' \in {r.options : r \in DropdownOptionResults(df')}
    /\ lpc' = "serving"
    /\ UNCHANGED <<store, dd, last, memo>>

\* a report is requested from the loaded application
ReportLoaded == /\ lpc = "serving"
                /\ GenerateReport
                /\ UNCHANGED lvars

\* the loader is not exercised
LoaderIdle == /\ store = [state |-> "missing", file |-> NoFrame]
              /\ lpc = "idle"

(***************************************************************************)
(* The option-set normalizer on its own: a dataset is drawn and            *)
(* get_dropdown_options runs on it.                                        *)
(***************************************************************************)
S_SEDAN == <<"S","E","D","A","N">>

\* a row whose two vehicle type cells are v1 and v2
VehicleRow(id, v1, v2) ==
    Row(id, S_QUEENS, 2021, 1, 8, 1, 40, 74, v1, v2, S_Alcohol, S_Unspecified,
        <<0, 0>>, <<0, 0>>, <<0, 0>>)

\* the frame whose pooled vehicle type cells are `cells` (an even number)
VehicleFrame(cells) ==
    Frame(FullSchema, [k \in 1..(Len(cells) \div 2) |->
                          VehicleRow(k, cells[2 * k - 1], cells[2 * k])])

\* n cells holding v
Repeat(v, n) == [k \in 1..n |-> v]

\* raw values "SEDAN", "sedan", "4", "", "Sedan" with counts 10, 3, 1, 1, 7
CasingScenario ==
    VehicleFrame(Repeat(S_SEDAN, 10) \o Repeat(K_sedan, 3) \o Repeat(<<"4">>, 1)
                 \o Repeat(S_Empty, 1) \o Repeat(S_Sedan, 7))

\* vehicle type cells in several casings, padded, and invalid
CasingPool == {S_SEDAN, K_sedan, <<" ">> \o K_sedan, S_Taxi, <<"4">>}

MaxCasingRows == 2

CasingFrames ==
    {VehicleFrame(cells) : cells \in UNION {[1..(2 * n) -> CasingPool] : n \in 0..MaxCasingRows}}

\* one vehicle type more than the option list holds
ManyTypes == TopVehicleTypes + 1

\* the i-th of the many vehicle types: TypeAa, TypeAb, ...
TypeLabel(i) == <<"T","y","p","e">> \o <<UpperChars[((i - 1) \div 26) + 1]>>
                \o <<LowerChars[((i - 1) % 26) + 1]>>

\* the first two types occur once, the i-th type i - 1 times
TypeCount(i) == IF i = 1 THEN 1 ELSE i - 1

RECURSIVE TypeCells(_)
TypeCells(i) == IF i = 0 THEN <<>> ELSE TypeCells(i - 1) \o Repeat(TypeLabel(i), TypeCount(i))

ManyTypesFrame == VehicleFrame(TypeCells(ManyTypes))

\* files with and without the columns the options are derived from
OptionSchemas == { FullSchema,
                   FullSchema \ {"VEHICLE_TYPE_CODE_2"},
                   FullSchema \ {"CONTRIBUTING_FACTOR_VEHICLE_2"},
                   FullSchema \ {"BOROUGH", "CRASH_YEAR"},
                   FullSchema \ {"VEHICLE_TYPE_CODE_1", "CONTRIBUTING_FACTOR_VEHICLE_1"},
                   {"COLLISION_ID"} }

OptionDatasets ==
    CasingFrames \cup {CasingScenario, ManyTypesFrame}
    \cup {Frame(cols, rows) : cols \in OptionSchemas, rows \in RowSeqs}

VARIABLES odf, oopts, opc

ovars == <<odf, oopts, opc>>

\* a dataset has been loaded
OptionsInit == /\ odf \in OptionDatasets
               /\ oopts = [raised |-> FALSE, options |-> EmptyOptions]
               /\ opc = "loaded"

\* dropdown_options = get_dropdown_options(df)
Normalize == /\ opc = "loaded"
             /\ oopts' \in DropdownOptionResults(odf)
             /\ opc' = "normalized"
             /\ UNCHANGED odf

\* the normalizer is not exercised on its own
OptionsIdle == /\ odf = NoFrame
               /\ oopts = [raised |-> FALSE, options |-> EmptyOptions]
               /\ opc = "idle"

(***************************************************************************)
(* The summary and the figures on their own: a filtered subset is drawn,   *)
(* calculate_summary_stats runs on it, then create_all_visualizations,     *)
(* more than once.                                                         *)
(***************************************************************************)
\* a row whose two factor cells are f1 and f2
FactorRow(id, f1, f2) ==
    Row(id, S_QUEENS, 2021, 1, 8, 1, 40, 74, S_Sedan, S_Taxi, f1, f2,
        <<0, 0>>, <<0, 0>>, <<0, 0>>)

\* one factor more than the chart holds
ManyFactors == TopFactors + 1

\* the i-th of the many factors: FactorA, FactorB, ...
FactorLabel(i) == <<"F","a","c","t","o","r">> \o <<UpperChars[i]>>

\* the cells of the many factors: the first two occur once, the i-th i - 1
\* times, and the sentinel more often than any
RECURSIVE FactorCells(_)
FactorCells(i) ==
    IF i = 0 THEN Repeat(S_Unspecified, ManyFactors + 1)
    ELSE FactorCells(i - 1) \o Repeat(FactorLabel(i), IF i = 1 THEN 1 ELSE i - 1)

ManyFactorsFrame ==
    LET cells == FactorCells(ManyFactors)
    IN  Frame(FullSchema, [k \in 1..(Len(cells) \div 2) |->
                              FactorRow(k, cells[k], cells[k + Len(cells) \div 2])])

ManyPoints == 3000

\* a frame with n records on the map after three that are not: a zero
\* latitude, no longitude, both zero
PointsFrame(n) ==
    Frame(FullSchema,
          [k \in 1..(n + 3) |->
              Row(k, S_QUEENS, 2021, 1, 8, 1,
                  IF k \in {1, 3} THEN 0 ELSE 40,
                  IF k = 2 THEN NaN ELSE IF k = 3 THEN 0 ELSE 74,
                  S_Sedan, S_Taxi, S_Alcohol, S_Unspecified,
                  <<k % 2, 0>>, <<0, 0>>, <<0, 0>>)])

\* subsets with and without the columns the summary and the figures read
ChartSchemas == { FullSchema,
                  FullSchema \ {"TOTAL_INJURED"},
                  FullSchema \ {"TOTAL_KILLED"},
                  FullSchema \ {"TOTAL_INJURED", "TOTAL_KILLED"},
                  FullSchema \ {"TOTAL_INJURED", "TOTAL_KILLED",
                                "NUMBER_OF_PERSONS_INJURED", "NUMBER_OF_PERSONS_KILLED"},
                  FullSchema \ {"NUMBER_OF_CYCLIST_KILLED"},
                  FullSchema \ {"CONTRIBUTING_FACTOR_VEHICLE_2"},
                  {"COLLISION_ID", "LATITUDE", "LONGITUDE"} }

\* the full schema on every short subset, the other schemas on no record, on
\* the scenario records, on a subset with missing values and on one with a
\* month code outside the calendar, and the large subsets
ChartDatasets ==
    {Frame(FullSchema, rows) : rows \in RowSeqs}
    \cup {Frame(cols, rows) : cols \in ChartSchemas, rows \in {<<>>, ScenarioRows, <<R6, R2>>, <<R9, R2, R5>>}}
    \cup {ManyFactorsFrame, PointsFrame(max_points), PointsFrame(ManyPoints)}

MaxRuns == 2

VARIABLES cdf, cstats, cpc

cvars == <<cdf, rng, cstats, cfigs, cpc>>

\* a filtered subset is at hand
ChartsInit == /\ cdf \in ChartDatasets
              /\ rng \in Range(Generators)
              /\ cstats = <<>>
              /\ cfigs = <<>>
              /\ cpc = "filtered"

\* summary_stats = calculate_summary_stats(filtered_df)
Summarize == /\ cpc = "filtered"
             /\ cstats' = calculate_summary_stats(cdf)
             /\ cpc' = "summarized"
             /\ UNCHANGED <<cdf, rng, cfigs>>

\* visualizations = create_all_visualizations(filtered_df)
Visualize == /\ cpc = "summarized"
             /\ Len(cfigs) < MaxRuns
             /\ \E order \in FactorOrders(cdf) :
                    \E figures \in {Figures(cdf, order)} : cfigs' = Append(cfigs, figures)
             /\ UNCHANGED <<cdf, rng, cstats, cpc>>

\* the summary and the figures are not exercised on their own
ChartsIdle == /\ cdf = NoFrame
              /\ rng = "head"
              /\ cstats = <<>>
              /\ cfigs = <<>>
              /\ cpc = "idle"

(***************************************************************************)
(* Specifications                                                          *)
(***************************************************************************)
vars == <<query, parsed, ppc, fdf, fopts, fcrit, fonce, ftwice, fpc,
          df, dropdown_options, dd, last, memo, odf, oopts, opc,
          cdf, rng, cstats, cfigs, cpc, store, lpc>>

ParseStart == ParseInit /\ FilterIdle /\ AppIdle /\ OptionsIdle /\ ChartsIdle /\ LoaderIdle

ParseNext == Parse /\ UNCHANGED <<fvars, avars, ovars, cvars, lvars>>

SpecParse == ParseStart /\ [][ParseNext]_vars

FilterStart == FilterInit /\ ParseIdle /\ AppIdle /\ OptionsIdle /\ ChartsIdle /\ LoaderIdle

FilterOnceStep == FilterOnce /\ UNCHANGED <<pvars, avars, ovars, cvars, lvars>>

FilterTwiceStep == FilterTwice /\ UNCHANGED <<pvars, avars, ovars, cvars, lvars>>

FilterNext == FilterOnceStep \/ FilterTwiceStep

SpecFilter == FilterStart /\ [][FilterNext]_vars

AppStart == AppInit /\ ParseIdle /\ FilterIdle /\ OptionsIdle /\ ChartsIdle /\ LoaderIdle

SelectDropdownStep == SelectDropdown /\ UNCHANGED <<pvars, fvars, ovars, cvars, lvars>>

ApplySearchStep == ApplySearch /\ UNCHANGED <<pvars, fvars, ovars, cvars, lvars>>

GenerateReportStep == GenerateReport /\ UNCHANGED <<pvars, fvars, ovars, cvars, lvars>>

AppNext == SelectDropdownStep \/ ApplySearchStep \/ GenerateReportStep

SpecApp == AppStart /\ [][AppNext]_vars

OptionsStart == OptionsInit /\ ParseIdle /\ FilterIdle /\ AppIdle /\ ChartsIdle /\ LoaderIdle

OptionsNext == Normalize /\ UNCHANGED <<pvars, fvars, avars, cvars, lvars>>

SpecOptions == OptionsStart /\ [][OptionsNext]_vars

ChartsStart == ChartsInit /\ ParseIdle /\ FilterIdle /\ AppIdle /\ OptionsIdle /\ LoaderIdle

SummarizeStep == Summarize /\ UNCHANGED <<pvars, fvars, avars, ovars, lvars>>

VisualizeStep == Visualize /\ UNCHANGED <<pvars, fvars, avars, ovars, lvars>>

ChartsNext == SummarizeStep \/ VisualizeStep

SpecCharts == ChartsStart /\ [][ChartsNext]_vars

LoaderStart == LoaderInit /\ ParseIdle /\ FilterIdle /\ OptionsIdle /\ ChartsIdle

LoadDataStep == LoadData /\ UNCHANGED <<pvars, fvars, ovars, cvars>>

ReportLoadedStep == ReportLoaded /\ UNCHANGED <<pvars, fvars, ovars, cvars>>

LoaderNext == LoadDataStep \/ ReportLoadedStep

SpecLoader == LoaderStart /\ [][LoaderNext]_vars

(***************************************************************************)
(* Claims about the query parser (checked under SpecParse)                 *)
(***************************************************************************)
\* a text was parsed
ParsedText == ppc = "parsed" /\ query.t = "str"

\* the start positions of the 4-digit substrings of q matching (19|20)\d\d,
\* whatever surrounds them
YearSubstrings(q) ==
    {i \in 1..(Len(q) - 3) : /\ q[i] \in {"1", "2"}
                             /\ (q[i] = "1" => q[i + 1] = "9")
                             /\ (q[i] = "2" => q[i + 1] = "0")
                             /\ IsDigit(q[i + 2]) /\ IsDigit(q[i + 3])}

\* a 4-digit substring at i that no letter, digit or underscore touches
Delimited(q, i) == /\ (i = 1 \/ ~IsWordChar(q[i - 1]))
                   /\ (i + 4 > Len(q) \/ ~IsWordChar(q[i + 4]))

\* the integer the four characters at i spell
YearValue(q, i) == 1000 * DigitValue(q[i]) + 100 * DigitValue(q[i + 1])
                   + 10 * DigitValue(q[i + 2]) + DigitValue(q[i + 3])

\* the year of the leftmost position of a set of positions, None for no position
LeftmostYear(q, hits) ==
    IF hits = {} THEN PyNone
    ELSE PyInt(YearValue(q, CHOOSE i \in hits : \A j \in hits : i <= j))

\* C8 as stated: the parsed year is the integer value of the leftmost 4-digit
\* substring matching (19|20)\d\d, whatever characters precede or follow it,
\* and is absent when the query has no such substring.
C8_YearAnySubstring ==
    ParsedText => parsed.year = LeftmostYear(query.s, YearSubstrings(query.s))

\* C8 as amended: the parsed year is the integer value of the leftmost 4-digit
\* substring matching (19|20)\d\d that is delimited on both sides (start or end
\* of the text, or a character that is no letter, digit or underscore), and is
\* absent when the query has no such delimited substring.
C8_YearDelimitedSubstring ==
    ParsedText => parsed.year = LeftmostYear(query.s,
                      {i \in YearSubstrings(query.s) : Delimited(query.s, i)})

\* C8 witness: a text with two delimited years was parsed to the left one
C8_Witness ==
    /\ ParsedText
    /\ query.s = <<"1","9","9","9">> \o <<" ">> \o <<"2","0","2","1">>
    /\ parsed.year = PyInt(1999)

\* C9: the parsed borough is the value of the first entry, in the table order
\* brooklyn, manhattan, queens, bronx, staten island, whose keyword occurs in
\* the lower-cased query, wherever the keywords stand in the text; it is absent
\* when no borough keyword occurs.
C9_BoroughTableOrder ==
    ParsedText =>
        LET ql == Lower(query.s)
        IN  parsed.borough =
                IF Contains(ql, K_brooklyn) THEN PyStr(S_BROOKLYN)
                ELSE IF Contains(ql, K_manhattan) THEN PyStr(S_MANHATTAN)
                ELSE IF Contains(ql, K_queens) THEN PyStr(S_QUEENS)
                ELSE IF Contains(ql, K_bronx) THEN PyStr(S_BRONX)
                ELSE IF Contains(ql, K_staten_island) THEN PyStr(S_STATEN_ISLAND)
                ELSE PyNone

\* C9 witness: "staten island brooklyn" was parsed to BROOKLYN
C9_Witness ==
    /\ ParsedText
    /\ query.s = K_staten_island \o <<" ">> \o K_brooklyn
    /\ parsed.borough = PyStr(S_BROOKLYN)

\* C10: the parsed injury type is Pedestrian if the lower-cased query contains
\* "pedestrian"; otherwise Cyclist if it contains "cyclist" or "bicycle";
\* otherwise Motorist if it contains "motorist" or "driver"; otherwise absent.
C10_InjuryPriority ==
    ParsedText =>
        LET ql == Lower(query.s)
            has(k) == Contains(ql, k)
        IN  /\ has(K_pedestrian) => parsed.injury_type = PyStr(S_Pedestrian)
            /\ ~has(K_pedestrian) /\ (has(K_cyclist) \/ has(K_bicycle))
                   => parsed.injury_type = PyStr(S_Cyclist)
            /\ ~has(K_pedestrian) /\ ~has(K_cyclist) /\ ~has(K_bicycle)
                   /\ (has(K_motorist) \/ has(K_driver))
                   => parsed.injury_type = PyStr(S_Motorist)
            /\ ~has(K_pedestrian) /\ ~has(K_cyclist) /\ ~has(K_bicycle)
                   /\ ~has(K_motorist) /\ ~has(K_driver)
                   => parsed.injury_type = PyNone

\* C10 witness: a text naming a cyclist before a pedestrian was parsed to Pedestrian
C10_Witness ==
    /\ ParsedText
    /\ query.s = <<"C","y","c","l","i","s","t">> \o <<" ">> \o K_pedestrian
    /\ parsed.injury_type = PyStr(S_Pedestrian)
(***************************************************************************)
(* Claims about the filter engine (checked under SpecFilter)               *)
(***************************************************************************)
\* the filter was applied to the drawn dataset and criteria
Filtered == fpc \in {"once", "twice"}

\* a criteria field that is neither absent nor the sentinel "All"
Constrains(v) == ~PyEq(v, PyNone) /\ ~PyEq(v, All)

InjuryClasses == {PyStr(S_Pedestrian), PyStr(S_Cyclist), PyStr(S_Motorist)}

\* criteria whose fields have the type of their dimension: a category label
\* for borough, vehicle type and factor, an integer for the year, one of the
\* three classes for the injury type
WellTyped(c) ==
    /\ Constrains(c.borough) => c.borough.t = "str"
    /\ Constrains(c.year) => c.year.t = "int"
    /\ Constrains(c.vehicle_type) => c.vehicle_type.t = "str"
    /\ Constrains(c.contributing_factor) => c.contributing_factor.t = "str"
    /\ Constrains(c.injury_type) => c.injury_type \in InjuryClasses

\* whether a record satisfies the predicate of every constrained dimension
Satisfies(r, c) ==
    /\ Constrains(c.borough) => r.BOROUGH = c.borough.s
    /\ Constrains(c.year) => r.CRASH_YEAR # NaN /\ r.CRASH_YEAR = c.year.n
    /\ Constrains(c.vehicle_type) =>
           c.vehicle_type.s \in {r.VEHICLE_TYPE_CODE_1, r.VEHICLE_TYPE_CODE_2}
    /\ Constrains(c.contributing_factor) =>
           c.contributing_factor.s \in {r.CONTRIBUTING_FACTOR_VEHICLE_1,
                                        r.CONTRIBUTING_FACTOR_VEHICLE_2}
    /\ c.injury_type = PyStr(S_Pedestrian) =>
           r.NUMBER_OF_PEDESTRIANS_INJURED > 0 \/ r.NUMBER_OF_PEDESTRIANS_KILLED > 0
    /\ c.injury_type = PyStr(S_Cyclist) =>
           r.NUMBER_OF_CYCLIST_INJURED > 0 \/ r.NUMBER_OF_CYCLIST_KILLED > 0
    /\ c.injury_type = PyStr(S_Motorist) =>
           r.NUMBER_OF_MOTORIST_INJURED > 0 \/ r.NUMBER_OF_MOTORIST_KILLED > 0

\* the records of a sequence that satisfy the criteria, in their order
Matching(rows, c) == LET Test(r) == Satisfies(r, c) IN SelectSeq(rows, Test)

\* criteria constraining the borough and, optionally, the year, and nothing else
Only(c, borough, year) ==
    /\ c.borough = borough
    /\ c.year = year
    /\ ~Constrains(c.vehicle_type)
    /\ ~Constrains(c.contributing_factor)
    /\ ~Constrains(c.injury_type)

\* C1: for every dataset and every well-typed criteria, apply_filters returns,
\* without raising, exactly the records that satisfy every constrained
\* dimension's predicate, combined by AND, in the original order; on the 5
\* records of the scenario, borough=Brooklyn with year=2021 returns exactly
\* the 3 Brooklyn records and borough=Bronx returns the empty subset.
C1_ExactSubsetInOrder ==
    Filtered /\ WellTyped(fcrit) =>
        /\ ~fonce.raised
        /\ fonce.frame.cols = fdf.cols
        /\ fonce.frame.rows = Matching(fdf.rows, fcrit)
        /\ fdf.rows = ScenarioRows /\ Only(fcrit, PyStr(S_BROOKLYN), PyInt(2021))
               => fonce.frame.rows = <<R1, R2, R7>>
        /\ fdf.rows = ScenarioRows /\ fcrit.borough = PyStr(S_BRONX)
               => fonce.frame.rows = <<>>

\* C1 witness: the scenario was filtered by borough=Brooklyn, year=2021
C1_Witness ==
    /\ fpc = "once"
    /\ fdf.rows = ScenarioRows
    /\ Only(fcrit, PyStr(S_BROOKLYN), PyInt(2021))
    /\ Len(fonce.frame.rows) = 3

\* every field of the criteria is absent or the sentinel "All"
AllAbsent(c) ==
    /\ ~Constrains(c.borough)
    /\ ~Constrains(c.year)
    /\ ~Constrains(c.vehicle_type)
    /\ ~Constrains(c.contributing_factor)
    /\ ~Constrains(c.injury_type)

\* C2: with every criteria field absent (None) or equal to "All", apply_filters
\* returns the full dataset: the same records in the same order.
C2_NoConstraintIsIdentity ==
    Filtered /\ AllAbsent(fcrit) => ~fonce.raised /\ fonce.frame = fdf

\* C2 witness: a two-record dataset was filtered with a mix of None and "All"
C2_Witness ==
    /\ fpc = "once"
    /\ fcrit.borough = All /\ fcrit.year = PyNone /\ fcrit.injury_type = All
    /\ AllAbsent(fcrit)
    /\ fdf.rows = <<R2, R1>>
    /\ fonce.frame.rows = <<R2, R1>>

\* C3: applying the same criteria to the result of apply_filters yields that
\* result again, in content and order.
C3_Idempotent ==
    fpc = "twice" => ~ftwice.raised /\ ftwice.frame = fonce.frame

\* C3 witness: a filter that kept one record and dropped another was applied twice
C3_Witness ==
    /\ fpc = "twice"
    /\ Len(fdf.rows) = 2
    /\ Len(fonce.frame.rows) = 1
    /\ Len(ftwice.frame.rows) = 1
\* a criteria value that is present, is not "All" and is no member of the list
\* of options of its dimension
OutsideStrings(v, options) == Constrains(v) /\ ~(v.t = "str" /\ v.s \in Range(options))

OutsideInts(v, options) == Constrains(v) /\ ~(v.t = "int" /\ v.n \in Range(options))

\* the criteria with one field replaced by "All"
Relaxed(c, field) == [c EXCEPT ![field] = All]

RowsWith(rows, columns, x) ==
    LET Test(r) == \E col \in columns : r[col] = x IN SelectSeq(rows, Test)

Reported == last.kind = "report"

\* C5: after startup no request changes the dataset df or the option sets
\* dropdown_options, and the filtered frame that a report passes to the
\* summary and chart stage is, when the report returns, the frame that was
\* passed.
C5_DatasetReadOnly ==
    [][/\ df' = df
       /\ dropdown_options' = dropdown_options
       /\ last'.kind = "report" => last'.after = last'.passed]_vars

\* C5 witness: a report built the map, whose block adds a size column to the
\* frame it works on, and the frame it was passed has no such column
C5_Witness ==
    /\ Reported
    /\ "map" \in Range(last.response.visualizations)
    /\ last.passed.rows # <<>>
    /\ "size" \notin last.after.cols
    /\ df \in AppDatasets

ColumnsRead(c) ==
    UNION { IF Constrains(c.borough) THEN {"BOROUGH"} ELSE {},
            IF Constrains(c.year) /\ c.year.t = "int" THEN {"CRASH_YEAR"} ELSE {},
            IF Constrains(c.vehicle_type)
            THEN {"VEHICLE_TYPE_CODE_1", "VEHICLE_TYPE_CODE_2"} ELSE {},
            IF Constrains(c.contributing_factor)
            THEN {"CONTRIBUTING_FACTOR_VEHICLE_1", "CONTRIBUTING_FACTOR_VEHICLE_2"} ELSE {},
            IF c.injury_type = PyStr(S_Pedestrian)
            THEN {"NUMBER_OF_PEDESTRIANS_INJURED", "NUMBER_OF_PEDESTRIANS_KILLED"} ELSE {},
            IF c.injury_type = PyStr(S_Cyclist)
            THEN {"NUMBER_OF_CYCLIST_INJURED", "NUMBER_OF_CYCLIST_KILLED"} ELSE {},
            IF c.injury_type = PyStr(S_Motorist)
            THEN {"NUMBER_OF_MOTORIST_INJURED", "NUMBER_OF_MOTORIST_KILLED"} ELSE {} }

NoKeyword(table, ql) == \A i \in 1..Len(table) : ~Contains(ql, table[i][1])

\* the labels of a keyword table, as values
Labels(table) == {PyStr(table[i][2]) : i \in 1..Len(table)}

\* C11: the parser returns, for None, for the empty text and for every other
\* text, a record with exactly the five fields borough, year, vehicle_type,
\* contributing_factor and injury_type, each None or a value of its dimension;
\* every field is None for None and for the empty text, and for any other
\* text the field of each dimension none of whose keywords (for the year: no
\* delimited 4-digit year) occurs is None.
C11_WellFormedCriteria ==
    ppc = "parsed" =>
        /\ DOMAIN parsed = {"borough", "year", "vehicle_type", "contributing_factor",
                            "injury_type"}
        /\ parsed.borough \in {PyNone} \cup Labels(boroughs)
        /\ parsed.year = PyNone \/ parsed.year.t = "int"
        /\ parsed.vehicle_type \in {PyNone} \cup Labels(vehicle_keywords)
        /\ parsed.contributing_factor \in {PyNone} \cup Labels(factor_keywords)
        /\ parsed.injury_type \in {PyNone, PyStr(S_Pedestrian), PyStr(S_Cyclist),
                                   PyStr(S_Motorist)}
        /\ query = PyNone \/ query = PyStr(<<>>) => parsed = NoFilters
        /\ query.t = "str" =>
               LET ql == Lower(query.s)
               IN  /\ NoKeyword(boroughs, ql) => parsed.borough = PyNone
                   /\ {i \in YearSubstrings(query.s) : Delimited(query.s, i)} = {}
                          => parsed.year = PyNone
                   /\ NoKeyword(vehicle_keywords, ql) => parsed.vehicle_type = PyNone
                   /\ NoKeyword(factor_keywords, ql) => parsed.contributing_factor = PyNone
                   /\ NoKeyword(<< <<K_pedestrian>>, <<K_cyclist>>, <<K_bicycle>>,
                                   <<K_motorist>>, <<K_driver>> >>, ql)
                          => parsed.injury_type = PyNone

\* C11 witness: "speeding" was parsed to the factor Unsafe Speed and to None
\* in the four other fields
C11_Witness ==
    /\ ParsedText
    /\ query.s = K_speeding
    /\ parsed = [NoFilters EXCEPT !.contributing_factor = PyStr(S_Unsafe_Speed)]

\* the label of the first entry of vehicle_keywords, in the order sedan, suv,
\* sport utility, truck, pickup, motorcycle, moped, bicycle, bike, bus, van,
\* taxi, ambulance, whose keyword occurs in the text
FirstVehicleInTable(ql) ==
    IF Contains(ql, K_sedan) THEN PyStr(S_Sedan)
    ELSE IF Contains(ql, K_suv) THEN PyStr(S_SUV)
    ELSE IF Contains(ql, K_sport_utility) THEN PyStr(S_SUV)
    ELSE IF Contains(ql, K_truck) THEN PyStr(S_Truck)
    ELSE IF Contains(ql, K_pickup) THEN PyStr(S_Pickup)
    ELSE IF Contains(ql, K_motorcycle) THEN PyStr(S_Motorcycle)
    ELSE IF Contains(ql, K_moped) THEN PyStr(S_Moped)
    ELSE IF Contains(ql, K_bicycle) THEN PyStr(S_Bicycle)
    ELSE IF Contains(ql, K_bike) THEN PyStr(S_Bicycle)
    ELSE IF Contains(ql, K_bus) THEN PyStr(S_Bus)
    ELSE IF Contains(ql, K_van) THEN PyStr(S_Van)
    ELSE IF Contains(ql, K_taxi) THEN PyStr(S_Taxi)
    ELSE IF Contains(ql, K_ambulance) THEN PyStr(S_Ambulance)
    ELSE PyNone

\* C20 as stated: the parsed vehicle type is the label of the first entry in
\* table order whose keyword occurs in the lower-cased query, absent when no
\* keyword occurs, and every query containing both "pickup" and "truck" parses
\* to Truck.
C20_PickupTruckAlwaysTruck ==
    ParsedText =>
        LET ql == Lower(query.s)
        IN  /\ parsed.vehicle_type = FirstVehicleInTable(ql)
            /\ Contains(ql, K_pickup) /\ Contains(ql, K_truck)
                   => parsed.vehicle_type = PyStr(S_Truck)

\* C20: the parsed vehicle type is the label of the first entry in table
\* order whose keyword occurs in the lower-cased query, wherever the keywords
\* stand in the text, and is absent when no keyword occurs; a query containing
\* both "pickup" and "truck" and none of the keywords ahead of them in the
\* table (sedan, suv, sport utility) parses to Truck.
C20_VehicleTableOrder ==
    ParsedText =>
        LET ql == Lower(query.s)
        IN  /\ parsed.vehicle_type = FirstVehicleInTable(ql)
            /\ (/\ Contains(ql, K_pickup) /\ Contains(ql, K_truck)
                /\ ~Contains(ql, K_sedan) /\ ~Contains(ql, K_suv)
                /\ ~Contains(ql, K_sport_utility))
                   => parsed.vehicle_type = PyStr(S_Truck)

\* C20 witness: "pickup truck" was parsed to Truck
C20_Witness ==
    /\ ParsedText
    /\ query.s = K_pickup \o <<" ">> \o K_truck
    /\ parsed.vehicle_type = PyStr(S_Truck)

(***************************************************************************)
(* Claims about the option-set normalizer                                  *)
(***************************************************************************)
\* the vehicle type options of the normalized dataset
VehicleTypeOptions == oopts.options.vehicle_types

\* the number of pooled vehicle type cells that read l once trimmed
LabelFrequency(f, l) ==
    Cardinality({i \in 1..Len(f.rows) : Strip(f.rows[i].VEHICLE_TYPE_CODE_1) = l})
    + Cardinality({i \in 1..Len(f.rows) : Strip(f.rows[i].VEHICLE_TYPE_CODE_2) = l})

\* the valid labels in the pooled vehicle type cells
ValidLabels(f) == {Strip(v) : v \in {x \in Range(PooledVehicles(f)) : ValidVehicle(Strip(x))}}

\* C12: the vehicle type options hold no two labels equal ignoring case, the
\* label kept among the casing variants of one label is the most frequent in
\* the pooled columns, and SEDAN x10, sedan x3, 4, "", Sedan x7 give [SEDAN]
C12_MostFrequentCasingKept ==
    (opc = "normalized" /\ ~oopts.raised /\ "VEHICLE_TYPE_CODE_1" \in odf.cols) =>
        /\ \A i, j \in 1..Len(VehicleTypeOptions) :
               Lower(VehicleTypeOptions[i]) = Lower(VehicleTypeOptions[j]) => i = j
        /\ \A i \in 1..Len(VehicleTypeOptions) : \A l \in ValidLabels(odf) :
               Lower(l) = Lower(VehicleTypeOptions[i])
                   => LabelFrequency(odf, l) <= LabelFrequency(odf, VehicleTypeOptions[i])
        /\ (odf = CasingScenario => VehicleTypeOptions = <<S_SEDAN>>)

\* the dimensions whose columns are all in the dataset
DerivedFrom == [boroughs |-> {"BOROUGH"},
                years |-> {"CRASH_YEAR"},
                vehicle_types |-> {"VEHICLE_TYPE_CODE_1", "VEHICLE_TYPE_CODE_2"},
                contributing_factors |-> {"CONTRIBUTING_FACTOR_VEHICLE_1",
                                          "CONTRIBUTING_FACTOR_VEHICLE_2"}]

\* the option lists of a dataset that has every column
FullOptions(f) == {r.options : r \in DropdownOptionResults(Frame(FullSchema, f.rows))}

\* C13: get_dropdown_options never raises on a dataset with missing columns;
\* a dimension whose columns are all present is computed as on the full
\* dataset whatever other columns are absent
C13_MissingColumnsTolerated ==
    opc = "normalized" =>
        /\ ~oopts.raised
        /\ \A d \in DOMAIN DerivedFrom :
               DerivedFrom[d] \subseteq odf.cols
                   => \E o \in FullOptions(odf) : oopts.options[d] = o[d]

\* the valid labels of the dataset with their frequencies
LabelFrequencies(f) == {<<l, LabelFrequency(f, l)>> : l \in ValidLabels(f)}

\* p stands before q when ranked by frequency descending, then label ascending
RankedBefore(p, q) == \/ p[2] > q[2]
                      \/ p[2] = q[2] /\ StrLess(p[1], q[1])

\* C19: the vehicle type options are at most 50 labels in ascending order,
\* and every label left out shares its spelling ignoring case with an option
\* or stands, in its most frequent casing, behind every option in the ranking
\* by frequency descending and label ascending, the list then being full
C19_Top50ByFrequencyThenLabel ==
    (opc = "normalized" /\ ~oopts.raised /\ "VEHICLE_TYPE_CODE_1" \in odf.cols) =>
        LET counted == LabelFrequencies(odf)
            kept == {p \in counted : \E i \in 1..Len(VehicleTypeOptions) :
                                        VehicleTypeOptions[i] = p[1]}
            keptLower == {Lower(p[1]) : p \in kept}
            cut == {p \in counted : Lower(p[1]) \notin keptLower}
        IN  /\ Len(VehicleTypeOptions) <= TopVehicleTypes
            /\ Cardinality(kept) = Len(VehicleTypeOptions)
            /\ \A i, j \in 1..Len(VehicleTypeOptions) :
                   i < j => StrLess(VehicleTypeOptions[i], VehicleTypeOptions[j])
            /\ cut # {} => Len(VehicleTypeOptions) = TopVehicleTypes
            /\ \A x \in cut :
                   \E y \in cut : /\ Lower(y[1]) = Lower(x[1])
                                  /\ \A k \in kept : RankedBefore(k, y)

(***************************************************************************)
(* Claims about the summary and the figures (checked under SpecCharts)     *)
(***************************************************************************)
\* the sum of the values S, each taken as often as it stands in the cells
RECURSIVE WeightedSum(_, _)
WeightedSum(cells, S) ==
    IF S = {} THEN 0
    ELSE LET v == CHOOSE x \in S : TRUE
         IN  v * Cardinality({i \in DOMAIN cells : cells[i] = v}) + WeightedSum(cells, S \ {v})

\* the sum of the first of the columns that the subset has, 0 when it has none
TotalOf(f, columns) ==
    LET has == {k \in 1..Len(columns) : columns[k] \in f.cols}
    IN  IF has = {} THEN 0
        ELSE LET first == CHOOSE k \in has : \A j \in has : k <= j
                 cells == Column(f, columns[first])
             IN  WeightedSum(cells, Range(cells) \ {NaN})

\* C14: the summary counts the records, sums TOTAL_INJURED and TOTAL_KILLED
\* (or the person columns when those are absent, or 0), and its average is
\* total injured / total crashes, 0 on no record, without a fault
C14_SummaryTotals ==
    cpc = "summarized" =>
        /\ Len(cstats) = 1
        /\ cstats[1].total_crashes = Len(cdf.rows)
        /\ cstats[1].total_injured = TotalOf(cdf, <<"TOTAL_INJURED", "NUMBER_OF_PERSONS_INJURED">>)
        /\ cstats[1].total_killed = TotalOf(cdf, <<"TOTAL_KILLED", "NUMBER_OF_PERSONS_KILLED">>)
        /\ (Len(cdf.rows) = 0 => cstats[1].avg_injured[1] = 0)
        /\ cstats[1].avg_injured[2] > 0
        /\ (Len(cdf.rows) > 0 =>
               cstats[1].avg_injured[1] * cstats[1].total_crashes
                   = cstats[1].total_injured * cstats[1].avg_injured[2])

\* the summary of no record, of a subset without the total columns
C14_Witness ==
    /\ cpc = "summarized"
    /\ cdf.rows = <<>>
    /\ "TOTAL_INJURED" \notin cdf.cols
    /\ "NUMBER_OF_PERSONS_INJURED" \in cdf.cols
    /\ Len(cstats) = 1
    /\ cstats[1].avg_injured[1] = 0

\* the positions of the records of the subset that have a place on the map
Qualifying(f) ==
    {i \in 1..Len(f.rows) : /\ f.rows[i].LATITUDE # NaN /\ f.rows[i].LONGITUDE # NaN
                            /\ f.rows[i].LATITUDE # 0 /\ f.rows[i].LONGITUDE # 0}

\* the smaller of two numbers
Min(a, b) == IF a < b THEN a ELSE b

\* the points are records at distinct qualifying positions of the subset
DistinctQualifying(f, points) ==
    LET q == Qualifying(f)
        ids == {f.rows[j].COLLISION_ID : j \in q}
        shown == {points[i].COLLISION_ID : i \in 1..Len(points)}
    IN  /\ {[points[i] EXCEPT !.size = NaN] : i \in 1..Len(points)} \subseteq {f.rows[j] : j \in q}
        /\ IF Cardinality(ids) = Cardinality(q)
           THEN Cardinality(shown) = Len(points)
           ELSE \A id \in shown :
                    Cardinality({i \in 1..Len(points) : points[i].COLLISION_ID = id})
                        <= Cardinality({j \in q : f.rows[j].COLLISION_ID = id})

\* C15: the points of the map have both coordinates, neither zero; of n such
\* records the map shows min(n, 2000), each a distinct one of them; and the
\* map drawn again from the same subset shows the same points
C15_MapPoints ==
    /\ \A k \in 1..Len(cfigs) :
           "map" \in Range(cfigs[k].charts) =>
               /\ \A i \in 1..Len(cfigs[k].points) :
                      /\ cfigs[k].points[i].LATITUDE \notin {NaN, 0}
                      /\ cfigs[k].points[i].LONGITUDE \notin {NaN, 0}
               /\ Len(cfigs[k].points) = Min(Cardinality(Qualifying(cdf)), max_points)
               /\ DistinctQualifying(cdf, cfigs[k].points)
    /\ \A k, l \in 1..Len(cfigs) : cfigs[k].points = cfigs[l].points

\* 3000 records with a place on the map, drawn twice: 2000 points each time
C15_Witness ==
    /\ cdf = PointsFrame(ManyPoints)
    /\ Cardinality(Qualifying(cdf)) = ManyPoints
    /\ Len(cfigs) = 2
    /\ Len(cfigs[1].points) = max_points
    /\ Len(cfigs[2].points) = max_points

\* the cells of both factor columns of the subset
FactorCells12(f) ==
    Column(f, "CONTRIBUTING_FACTOR_VEHICLE_1") \o Column(f, "CONTRIBUTING_FACTOR_VEHICLE_2")

\* how often x stands in the cells
Occurrences(cells, x) == Cardinality({i \in 1..Len(cells) : cells[i] = x})

\* C16: the factor rows give each value its count over both factor columns,
\* never the value Unspecified, never more than 10 rows, the most frequent
\* first, and no value left out is more frequent than one shown
C16_TopFactors ==
    \A k \in 1..Len(cfigs) :
        "factors" \in Range(cfigs[k].charts) =>
            LET series == cfigs[k].factors
                cells == FactorCells12(cdf)
                shown == {series[i][1] : i \in 1..Len(series)}
                others == (Range(cells) \ {S_Unspecified}) \ shown
            IN  /\ \A i \in 1..Len(series) :
                       /\ series[i][1] # S_Unspecified
                       /\ series[i][2] = Occurrences(cells, series[i][1])
                       /\ series[i][2] > 0
                /\ Cardinality(shown) = Len(series)
                /\ Len(series) <= TopFactors
                /\ others # {} => Len(series) = TopFactors
                /\ \A i, j \in 1..Len(series) : i < j => series[i][2] >= series[j][2]
                /\ \A x \in others : \A i \in 1..Len(series) :
                       Occurrences(cells, x) <= series[i][2]

\* eleven factors and the sentinel, the sentinel the most frequent: ten rows
C16_Witness ==
    /\ cdf = ManyFactorsFrame
    /\ Len(cfigs) > 0
    /\ Len(cfigs[1].factors) = TopFactors
    /\ Occurrences(FactorCells12(cdf), S_Unspecified) > cfigs[1].factors[1][2]
    /\ Cardinality(Range(FactorCells12(cdf)) \ {S_Unspecified}) > TopFactors

\* the injury classes: the bucket and its injured and killed columns
CasualtyClasses ==
    { [Type |-> "Pedestrian", injured |-> "NUMBER_OF_PEDESTRIANS_INJURED",
       killed |-> "NUMBER_OF_PEDESTRIANS_KILLED"],
      [Type |-> "Cyclist", injured |-> "NUMBER_OF_CYCLIST_INJURED",
       killed |-> "NUMBER_OF_CYCLIST_KILLED"],
      [Type |-> "Motorist", injured |-> "NUMBER_OF_MOTORIST_INJURED",
       killed |-> "NUMBER_OF_MOTORIST_KILLED"] }

\* the records of the subset with a casualty of class c
WithCasualty(f, c) ==
    {i \in 1..Len(f.rows) : \/ f.rows[i][c.injured] # NaN /\ f.rows[i][c.injured] > 0
                            \/ f.rows[i][c.killed] # NaN /\ f.rows[i][c.killed] > 0}

\* the subset has the killed column of every class whose injured column it has
ClassColumnsPaired(f) == \A c \in CasualtyClasses : c.injured \in f.cols => c.killed \in f.cols

\* C17: each injury type bucket counts the records with a casualty of its own
\* class, whatever their casualties of the other classes; a record with one
\* injured pedestrian and no other casualty is in the Pedestrian bucket only
C17_IndependentBuckets ==
    \A k \in 1..Len(cfigs) :
        LET series == cfigs[k].injury
            at(c) == {i \in 1..Len(series) : series[i].Type = c.Type}
        IN  /\ \A c \in CasualtyClasses :
                   IF c.injured \in cdf.cols /\ ClassColumnsPaired(cdf)
                      /\ WithCasualty(cdf, c) # {}
                   THEN /\ Cardinality(at(c)) = 1
                        /\ \A i \in at(c) : series[i].Count = Cardinality(WithCasualty(cdf, c))
                   ELSE at(c) = {}
            /\ (cdf = Frame(FullSchema, <<R1>>)
                   => series = <<[Type |-> "Pedestrian", Count |-> 1]>>)

\* a record with a pedestrian and a cyclist casualty beside one with an
\* injured pedestrian only: it is counted in both buckets
C17_Witness ==
    /\ cdf = Frame(FullSchema, <<R1, R2>>)
    /\ Len(cfigs) > 0
    /\ cfigs[1].injury = <<[Type |-> "Pedestrian", Count |-> 2],
                           [Type |-> "Cyclist", Count |-> 1]>>

(***************************************************************************)
(* Claims about the loader (checked under SpecLoader)                      *)
(***************************************************************************)
\* the store has no file that can be read
Unavailable == store.state \in {"missing", "unreadable"}

\* C18: when the data file is missing or cannot be read, load_data returns
\* an empty dataset that has the expected columns, and every request after it
\* is answered on the no-data path
C18_EmptyStructureWhenUnavailable ==
    (lpc = "serving" /\ Unavailable) =>
        /\ df.rows = <<>>
        /\ df.cols = ExpectedStructure
        /\ last # NoRequest =>
               /\ ~last.raised
               /\ last.response.message = "No Data Available"

\* the points of every map drawn so far
AllPoints == UNION {Range(cfigs[k].points) : k \in 1..Len(cfigs)}

\* the killed count that enters the size of point p
KilledOf(p) == IF "TOTAL_KILLED" \in cdf.cols THEN p.TOTAL_KILLED ELSE 0

\* C21 as stated: the size of a point is its injured count plus 10 times its
\* killed count, and 1 when the subset has no injury column
C21_SizeIsSeverity ==
    \A p \in AllPoints :
        IF "TOTAL_INJURED" \in cdf.cols
        THEN (p.TOTAL_INJURED # NaN /\ KilledOf(p) # NaN)
                 => p.size = p.TOTAL_INJURED + 10 * KilledOf(p)
        ELSE p.size = 1

\* C21: the size of a point is 1 more than its injured count plus 10 times
\* its killed count (the killed count read as 0 without that column), hence
\* 1 for a record without casualties, and 3 when the subset has no
\* TOTAL_INJURED column
C21_SizeIsSeverityPlusOne ==
    \A p \in AllPoints :
        IF "TOTAL_INJURED" \in cdf.cols
        THEN (p.TOTAL_INJURED # NaN /\ KilledOf(p) # NaN)
                 => /\ p.size = p.TOTAL_INJURED + 10 * KilledOf(p) + 1
                    /\ p.size >= 1
                    /\ (p.TOTAL_INJURED = 0 /\ KilledOf(p) = 0 => p.size = 1)
        ELSE p.size = 3

\* a point of one injured and one killed: size 12
C21_Witness ==
    \E p \in AllPoints : /\ "TOTAL_INJURED" \in cdf.cols /\ "TOTAL_KILLED" \in cdf.cols
                          /\ p.TOTAL_INJURED = 1 /\ p.TOTAL_KILLED = 1
                          /\ p.size = 12

\* the calendar
Calendar == <<"January", "February", "March", "April", "May", "June",
              "July", "August", "September", "October", "November", "December">>

\* the records of the subset in month m
InMonth(f, m) == {i \in 1..Len(f.rows) : f.rows[i].CRASH_MONTH = m}

\* C22: the month rows hold, for each month code 1..12 of the subset, one row
\* with the month's name and the number of its records, none for a month
\* without records, and the named rows stand in the order of the calendar
C22_MonthsInCalendarOrder ==
    \A k \in 1..Len(cfigs) :
        "month" \in Range(cfigs[k].charts) =>
            LET series == cfigs[k].months
                at(m) == {i \in 1..Len(series) : series[i].Month = Calendar[m]}
            IN  /\ \A m \in 1..12 :
                       IF InMonth(cdf, m) = {} THEN at(m) = {}
                       ELSE /\ Cardinality(at(m)) = 1
                            /\ \A i \in at(m) : series[i].Count = Cardinality(InMonth(cdf, m))
                /\ \A m, n \in 1..12 : \A i \in at(m) : \A j \in at(n) : m < n => i < j
                /\ Len(series) = Cardinality(Range(Column(cdf, "CRASH_MONTH")) \ {NaN})

\* January, March, June twice and December: neither the order of the names
\* nor the order of the counts
C22_Witness ==
    /\ Len(cfigs) > 0
    /\ cfigs[1].months = <<[Month |-> "January", Count |-> 1], [Month |-> "March", Count |-> 1],
                           [Month |-> "June", Count |-> 2], [Month |-> "December", Count |-> 1]>>

(***************************************************************************)
(* Further claims about the dashboard (checked under SpecApp)              *)
(***************************************************************************)
\* the dropdown values that stand for the criteria parsed from q: the parsed
\* value where q mentions the dimension, 'All' where it does not
ParsedOrAll(q) ==
    [d \in Dimensions |->
        IF parse_search_query(q)[d] # PyNone THEN parse_search_query(q)[d] ELSE All]

\* C23: whenever a search for q is on record and a report has run on the
\* dropdown values that search wrote, those values are the criteria parsed
\* from q with 'All' for every dimension q does not mention, and the report
\* summarises and charts the subset apply_filters(df, parse_search_query(q)),
\* or nothing when that subset is empty or cannot be computed
C23_SearchThenReport ==
    (Reported /\ memo.request.kind = "search" /\ last.filters = memo.request.values) =>
        \E expected \in {apply_filters(df, parse_search_query(memo.request.query))} :
            /\ last.filters = ParsedOrAll(memo.request.query)
            /\ IF Empty(df) \/ expected.raised \/ expected.frame.rows = <<>>
               THEN last.passed = NoFrame
               ELSE last.passed = expected.frame
            /\ ~Empty(df) => (last.raised <=> expected.raised)

\* a report on the values a search for a borough and a year wrote, with
\* records to chart
C23_Witness ==
    /\ Reported
    /\ memo.request.kind = "search"
    /\ memo.request.values = last.filters
    /\ Constrains(last.filters.borough)
    /\ Constrains(last.filters.year)
    /\ last.passed # NoFrame
    /\ Len(last.passed.rows) < Len(df.rows)

(***************************************************************************)
(* Further claims about the figures (checked under SpecCharts)             *)
(***************************************************************************)
\* the criteria that constrain the injury type alone
InjuryOnly(type) == [NoFilters EXCEPT !.injury_type = PyStr(type)]

\* the buckets of the injury series with the injury type of the criteria
BucketTypes ==
    { [Type |-> "Pedestrian", injury_type |-> S_Pedestrian],
      [Type |-> "Cyclist", injury_type |-> S_Cyclist],
      [Type |-> "Motorist", injury_type |-> S_Motorist] }

\* the subset has the injured and the killed column of the three classes
HasCasualtyColumns(f) ==
    \A c \in CasualtyClasses : {c.injured, c.killed} \subseteq f.cols

Part(c, D) == [d \in Dimensions |-> IF d \in D THEN c[d] ELSE PyNone]

\* whether sequence s is a sub-sequence of sequence t
RECURSIVE IsSubSeq(_, _)
IsSubSeq(s, t) ==
    IF s = <<>> THEN TRUE
    ELSE IF t = <<>> THEN FALSE
    ELSE IF Head(s) = Head(t) THEN IsSubSeq(Tail(s), Tail(t))
    ELSE IsSubSeq(s, Tail(t))

\* the datasets on which every split of the criteria is tried: the scenario
\* and two subsets with missing values
ComposeRows == {ScenarioRows, <<R6, R2>>, <<R5, R4>>}

\* C25: for every criteria the result of apply_filters is a sub-sequence of
\* the dataset; and, on the scenario and on two subsets with missing values,
\* for every way of splitting the criteria into c1 and c2 on disjoint
\* dimensions, filtering by c1 and then by c2, filtering by c2 and then by c1
\* and filtering once by the merged criteria give the same result, which is
\* a sub-sequence of the result of c1 alone, so that adding a constraint
\* never adds a record
C25_ComposeAndNarrow ==
    fpc = "once" =>
        /\ ~fonce.raised
        /\ IsSubSeq(fonce.frame.rows, fdf.rows)
        /\ \A D \in IF fdf.rows \in ComposeRows THEN SUBSET Dimensions ELSE {} :
               \E one \in {apply_filters(fdf, Part(fcrit, D))} :
                   /\ ~one.raised
                   /\ IsSubSeq(one.frame.rows, fdf.rows)
                   /\ IsSubSeq(fonce.frame.rows, one.frame.rows)
                   /\ apply_filters(one.frame, Part(fcrit, Dimensions \ D)) = fonce

\* the scenario filtered by borough, year and injury type: the borough alone
\* keeps three records, the year and the injury type alone keep two, merged
\* they keep one
C25_Witness ==
    /\ fpc = "once"
    /\ fdf.rows = ScenarioRows
    /\ Constrains(fcrit.borough) /\ Constrains(fcrit.year) /\ Constrains(fcrit.injury_type)
    /\ Len(apply_filters(fdf, Part(fcrit, {"borough"})).frame.rows) = 3
    /\ Len(apply_filters(fdf, Part(fcrit, {"year", "injury_type"})).frame.rows) = 2
    /\ Len(fonce.frame.rows) = 1

(***************************************************************************)
(* The parser's vehicle labels against the normalizer's validity rule      *)
(* (checked under SpecParse)                                               *)
(***************************************************************************)
\* C26: every vehicle type the parser returns satisfies the validity rule of
\* the vehicle type options, the at-least-4-characters rule in particular, so
\* that it can be a member of the Option Set of the dropdown it is written to
C26_ParsedVehicleTypeIsValid ==
    ParsedText /\ parsed.vehicle_type # PyNone =>
        /\ Len(parsed.vehicle_type.s) >= MinVehicleLen
        /\ ValidVehicle(parsed.vehicle_type.s)

=============================================================================
